---- MODULE Spec2Model ----
(***************************************************************************)
(* A model of the biolink server: the relational tables (users, profiles,  *)
(* social_links, themes), the session store, and the request handlers of   *)
(* server/routes.ts, server/auth.ts, server/adminRoutes.ts together with   *)
(* the storage methods of server/storage.ts they call.                     *)
(*                                                                         *)
(* Every handler is a sequence of awaited database statements.  A request  *)
(* slot of reqs runs one handler; each step of a handler is one database  *)
(* statement, so that statements of concurrent requests interleave the way *)
(* the node event loop and the connection pool allow.  A db.transaction    *)
(* keeps its writes private until it commits and holds the row locks of    *)
(* the rows it has updated (PostgreSQL, read committed).                   *)
(*                                                                         *)
(* The column constraints of shared/schema.ts (primary keys, unique(),     *)
(* references()) are enforced by the statements: a statement that would    *)
(* break one throws, and the handler answers from its catch block.         *)
(***************************************************************************)
EXTENDS Integers, Sequences, FiniteSets, TLC

VARIABLES
    users,        \* users table: id -> row
    profiles,     \* profiles table: id -> row
    socialLinks,  \* social_links table: id -> row
    themes,       \* themes table: id -> row
    sessions,     \* session store: sid -> session data
    reqs,         \* request slots: the handler each runs and its locals
    nextId,       \* gen_random_uuid(): ids handed out so far, per table
    now,          \* the wall clock (hours)
    ghost         \* history kept for stating properties only

vars == <<users, profiles, socialLinks, themes, sessions, reqs, nextId, now, ghost>>

(***************************************************************************)
(* Bounds of the model.                                                    *)
(***************************************************************************)
MaxProfiles == 3      \* profile rows ever inserted
MaxThemes == 2        \* theme rows ever inserted
MaxLinks == 3         \* link rows ever inserted
MaxViews == 3         \* page views served per run
MaxUsers == 2         \* user rows ever inserted by register

Procs == {"r1", "r2"}                 \* concurrent requests
PageNames == {<<"a">>, <<"b">>}       \* page names requests ask for
NoId == 0                             \* "no row" / undefined

Idle == [pc |-> "idle", op |-> "none"]

Dom(f) == DOMAIN f

\* A table with one row added / one row removed / one row changed.
Insert(table, id, row) == [i \in Dom(table) \cup {id} |-> IF i = id THEN row ELSE table[i]]
Delete(table, ids) == [i \in Dom(table) \ ids |-> table[i]]

(***************************************************************************)
(* storage.ts: reads                                                       *)
(***************************************************************************)
getUser(id) == IF id \in Dom(users) THEN id ELSE NoId

getProfileById(id) == IF id \in Dom(profiles) THEN id ELSE NoId

\* page_name is unique, so at most one row matches
getProfileByPageName(name) ==
    IF \E i \in Dom(profiles) : profiles[i].pageName = name
    THEN CHOOSE i \in Dom(profiles) : profiles[i].pageName = name
    ELSE NoId

getProfilesByUserId(u) == {i \in Dom(profiles) : profiles[i].userId = u}

DefaultProfilesOf(u) == {i \in Dom(profiles) : profiles[i].userId = u /\ profiles[i].isDefault}

(***************************************************************************)
(* Row locks of the open transactions.  A transaction that has run its     *)
(* first UPDATE holds the locks of the rows that statement matched until   *)
(* it commits or rolls back; an UPDATE or DELETE of another request that   *)
(* touches one of these rows waits.                                        *)
(***************************************************************************)
ProfileLocksOf(p) == IF reqs[p].pc = "sd_set" THEN reqs[p].rows ELSE {}
ProfileLockedByOther(p, ids) == \E q \in Procs \ {p} : ProfileLocksOf(q) \cap ids # {}

ThemeLocksOf(p) == IF reqs[p].pc = "at_set" THEN reqs[p].rows ELSE {}
ThemeLockedByOther(p, ids) == \E q \in Procs \ {p} : ThemeLocksOf(q) \cap ids # {}

(***************************************************************************)
(* shared/schema.ts: constraints                                           *)
(***************************************************************************)
\* profiles.page_name unique(): may a row (other than `self`) take `name`?
PageNameFree(name, self) == \A i \in Dom(profiles) \ {self} : profiles[i].pageName # name

\* themes.profile_id references profiles.id: profile rows a theme points to
ProfilesReferencedByThemes == {themes[t].profileId : t \in Dom(themes)}

\* a users table whose rows no profile holds in place
NoUsersReferenced == {}

\* profiles.user_id references users.id: user rows a profile points to
UsersReferencedByProfiles == {profiles[i].userId : i \in Dom(profiles)}

Respond(p, status) == [reqs EXCEPT ![p] = [reqs[p] EXCEPT !.pc = "done", !.status = status]]
Goto(p, pc) == [reqs EXCEPT ![p] = [reqs[p] EXCEPT !.pc = pc]]

UNCH_tables == UNCHANGED <<users, profiles, socialLinks, themes>>

(***************************************************************************)
(* POST /api/bio-pages  (routes.ts) and storage.createBioPage              *)
(***************************************************************************)
\* isDefault of the row createBioPage inserts
NewPageIsDefault(isFirstPage) == isFirstPage

\* routes.ts: the handler's name check, 409 when the name is taken
PostBioPageStart(p, u, name) ==
    /\ reqs[p].pc = "idle"
    /\ u \in Dom(users)
    /\ nextId.profile + Cardinality({q \in Procs : reqs[q].pc \in {"cbp_read", "cbp_insert"}}) <= MaxProfiles
    /\ reqs' = [reqs EXCEPT ![p] =
            [pc |-> IF getProfileByPageName(name) # NoId THEN "done" ELSE "cbp_read",
             op |-> "createBioPage", caller |-> u, pageName |-> name,
             isFirstPage |-> FALSE, created |-> NoId, nameTaken |-> getProfileByPageName(name) # NoId,
             status |-> IF getProfileByPageName(name) # NoId THEN 409 ELSE 0]]
    /\ UNCH_tables /\ UNCHANGED <<sessions, nextId, now, ghost>>

\* storage.createBioPage: existingProfiles = getProfilesByUserId(userId)
CreateBioPageRead(p) ==
    /\ reqs[p].pc = "cbp_read"
    /\ reqs' = [reqs EXCEPT ![p] = [reqs[p] EXCEPT
            !.pc = "cbp_insert",
            !.isFirstPage = (getProfilesByUserId(reqs[p].caller) = {})]]
    /\ UNCH_tables /\ UNCHANGED <<sessions, nextId, now, ghost>>

\* storage.createBioPage: the INSERT; a unique or foreign-key violation throws
\* and the handler's catch answers 500
CreateBioPageInsert(p) ==
    /\ reqs[p].pc = "cbp_insert"
    /\ LET r == reqs[p]
           ok == PageNameFree(r.pageName, NoId) /\ r.caller \in Dom(users)
           id == nextId.profile
       IN  IF ok
           THEN /\ profiles' = Insert(profiles, id,
                        [userId |-> r.caller, pageName |-> r.pageName,
                         isDefault |-> NewPageIsDefault(r.isFirstPage),
                         profileViews |-> 0, linkClicks |-> 0])
                /\ nextId' = [nextId EXCEPT !.profile = id + 1]
                /\ reqs' = [reqs EXCEPT ![p] = [r EXCEPT !.pc = "done", !.status = 201, !.created = id]]
           ELSE /\ UNCHANGED <<profiles, nextId>>
                /\ reqs' = [reqs EXCEPT ![p] = [r EXCEPT !.pc = "done", !.status = 500,
                                !.nameTaken = ~PageNameFree(r.pageName, NoId)]]
    /\ UNCHANGED <<users, socialLinks, themes, sessions, now, ghost>>

(***************************************************************************)
(* DELETE /api/bio-pages/:id and storage.deleteBioPage                     *)
(***************************************************************************)
\* a check that looks at the row only
DeleteBioPageExists(id, u) == getProfileById(id) # NoId

\* if (!profile || profile.userId !== userId) return false
DeleteBioPageFound(id, u) == getProfileById(id) # NoId /\ profiles[id].userId = u

\* const profile = await this.getProfileById(id); ownership test
DeleteBioPageStart(p, u, id) ==
    /\ reqs[p].pc = "idle"
    /\ u \in Dom(users)
    /\ LET found == DeleteBioPageFound(id, u)
       IN reqs' = [reqs EXCEPT ![p] =
            [pc |-> IF ~found THEN "done" ELSE IF profiles[id].isDefault THEN "del_other" ELSE "del_delete",
             op |-> "deleteBioPage", caller |-> u, id |-> id, other |-> NoId,
             wasDefault |-> found /\ profiles[id].isDefault,
             status |-> IF found THEN 0 ELSE 404]]
    /\ UNCH_tables /\ UNCHANGED <<sessions, nextId, now, ghost>>

\* select ... where userId = userId and id <> id limit 1: any one such row
DeleteBioPageOther(p) ==
    /\ reqs[p].pc = "del_other"
    /\ LET r == reqs[p]
           others == getProfilesByUserId(r.caller) \ {r.id}
       IN  IF others = {}
           THEN reqs' = Goto(p, "del_delete")
           ELSE \E o \in others :
                  reqs' = [reqs EXCEPT ![p] = [r EXCEPT !.pc = "del_promote", !.other = o]]
    /\ UNCH_tables /\ UNCHANGED <<sessions, nextId, now, ghost>>

\* update profiles set isDefault = true where id = otherProfiles[0].id
DeleteBioPagePromote(p) ==
    /\ reqs[p].pc = "del_promote"
    /\ ~ProfileLockedByOther(p, {reqs[p].other})
    /\ profiles' = [i \in Dom(profiles) |->
            IF i = reqs[p].other THEN [profiles[i] EXCEPT !.isDefault = TRUE] ELSE profiles[i]]
    /\ reqs' = Goto(p, "del_delete")
    /\ UNCHANGED <<users, socialLinks, themes, sessions, nextId, now, ghost>>

\* delete from profiles where id = id and userId = userId returning *
\* a theme row that references the page makes the DELETE throw (500)
DeleteBioPageDelete(p) ==
    /\ reqs[p].pc = "del_delete"
    /\ ~ProfileLockedByOther(p, {reqs[p].id})
    /\ LET r == reqs[p]
           hit == r.id \in Dom(profiles) /\ profiles[r.id].userId = r.caller
       IN  IF hit /\ r.id \in ProfilesReferencedByThemes
           THEN /\ UNCHANGED profiles
                /\ reqs' = Respond(p, 500)
           ELSE /\ profiles' = IF hit THEN Delete(profiles, {r.id}) ELSE profiles
                /\ reqs' = Respond(p, IF hit THEN 204 ELSE 404)
    /\ UNCHANGED <<users, socialLinks, themes, sessions, nextId, now, ghost>>

(***************************************************************************)
(* POST /api/bio-pages/:id/set-default and storage.setDefaultBioPage       *)
(***************************************************************************)
\* routes.ts: ownership check before the storage call
SetDefaultStart(p, u, id) ==
    /\ reqs[p].pc = "idle"
    /\ u \in Dom(users)
    /\ LET st == IF getProfileById(id) = NoId THEN 404
                 ELSE IF profiles[id].userId # u THEN 403 ELSE 0
       IN reqs' = [reqs EXCEPT ![p] =
            [pc |-> IF st = 0 THEN "sd_unset" ELSE "done",
             op |-> "setDefaultBioPage", caller |-> u, id |-> id, rows |-> {}, status |-> st]]
    /\ UNCH_tables /\ UNCHANGED <<sessions, nextId, now, ghost>>

\* tx: update profiles set isDefault = false where userId = userId
\* (the rows are locked; the write is private to the transaction)
SetDefaultUnset(p) ==
    /\ reqs[p].pc = "sd_unset"
    /\ LET rows == getProfilesByUserId(reqs[p].caller)
       IN /\ ~ProfileLockedByOther(p, rows)
          /\ reqs' = [reqs EXCEPT ![p] = [reqs[p] EXCEPT !.pc = "sd_set", !.rows = rows]]
    /\ UNCH_tables /\ UNCHANGED <<sessions, nextId, now, ghost>>

\* the rows the second UPDATE of setDefaultBioPage matches
SetDefaultTarget(id, u) == {i \in Dom(profiles) : i = id /\ profiles[i].userId = u}

\* a commit that carries the second UPDATE only
SetDefaultCommittedSetOnly(rows, target) ==
    [i \in Dom(profiles) |->
        IF i \in target THEN [profiles[i] EXCEPT !.isDefault = TRUE] ELSE profiles[i]]

\* the profiles table after the transaction commits: both updates applied
SetDefaultCommitted(rows, target) ==
    [i \in Dom(profiles) |->
        IF i \in target THEN [profiles[i] EXCEPT !.isDefault = TRUE]
        ELSE IF i \in rows THEN [profiles[i] EXCEPT !.isDefault = FALSE]
        ELSE profiles[i]]

\* a failure that leaves the first UPDATE in place
SetDefaultNotRolledBack(rows) ==
    [i \in Dom(profiles) |->
        IF i \in rows THEN [profiles[i] EXCEPT !.isDefault = FALSE] ELSE profiles[i]]

\* the profiles table after the throw inside db.transaction: rolled back
SetDefaultRolledBack(rows) == profiles

\* tx: update profiles set isDefault = true where id = id and userId = userId
\* returning *; zero rows throws, which rolls the transaction back; otherwise
\* the transaction commits both updates
SetDefaultSet(p) ==
    /\ reqs[p].pc = "sd_set"
    /\ LET r == reqs[p]
           target == SetDefaultTarget(r.id, r.caller)
       IN  /\ ~ProfileLockedByOther(p, target)
           /\ IF target = {}
              THEN /\ profiles' = SetDefaultRolledBack(r.rows)
                   /\ reqs' = Respond(p, 500)
              ELSE /\ profiles' = SetDefaultCommitted(r.rows, target)
                   /\ reqs' = Respond(p, 200)
    /\ UNCHANGED <<users, socialLinks, themes, sessions, nextId, now, ghost>>

\* the response has been sent; the slot serves the next request
Complete(p) ==
    /\ reqs[p].pc = "done"
    /\ reqs' = [reqs EXCEPT ![p] = Idle]
    /\ UNCH_tables /\ UNCHANGED <<sessions, nextId, now, ghost>>

(***************************************************************************)
(* PATCH /api/bio-pages/:id with storage.updateBioPage, and                *)
(* PATCH /api/profile/:id with storage.updateProfile.                      *)
(* An optional body field is <<>> when absent and <<v>> when present.      *)
(***************************************************************************)
MaxPageNameLen == 50

\* the characters /^[a-zA-Z0-9-_]+$/ accepts, among those of the model
SchemaPageNameChars == {"a", "b", "c", "u", "s", "e", "r", "A", "B", "0", "1", "2", "3",
                        "4", "5", "6", "7", "8", "9", "-", "_"}

\* createBioPageSchema.pageName: min(1), max(50), the regex
ValidPageName(name) ==
    /\ Len(name) >= 1 /\ Len(name) <= MaxPageNameLen
    /\ \A k \in 1..Len(name) : name[k] \in SchemaPageNameChars

\* PATCH /api/bio-pages/:id: getProfileById, the ownership test and
\* updateBioPageSchema.parse(req.body), which keeps pageName (and the text
\* fields) and strips every other key
PatchBioPageStart(p, u, id, body) ==
    /\ reqs[p].pc = "idle"
    /\ u \in Dom(users)
    /\ LET st == IF getProfileById(id) = NoId THEN 404
                 ELSE IF profiles[id].userId # u THEN 403
                 ELSE IF body.pageName # <<>> /\ ~ValidPageName(body.pageName[1]) THEN 400
                 ELSE 0
           renames == /\ st = 0 /\ body.pageName # <<>>
                      /\ body.pageName[1] # profiles[id].pageName
       IN reqs' = [reqs EXCEPT ![p] =
            [pc |-> IF st # 0 THEN "done" ELSE IF renames THEN "ubp_name" ELSE "ubp_update",
             op |-> "updateBioPage", caller |-> u, id |-> id,
             existingPageName |-> IF st \in {404, 403} THEN <<>> ELSE profiles[id].pageName,
             newPageName |-> body.pageName, status |-> st]]
    /\ UNCH_tables /\ UNCHANGED <<sessions, nextId, now, ghost>>

\* const existingProfileWithName = await storage.getProfileByPageName(...)
NameTaken(name) == getProfileByPageName(name) # NoId

\* if (existingProfileWithName) return 409
UpdateBioPageName(p) ==
    /\ reqs[p].pc = "ubp_name"
    /\ reqs' = IF NameTaken(reqs[p].newPageName[1]) THEN Respond(p, 409)
               ELSE Goto(p, "ubp_update")
    /\ UNCH_tables /\ UNCHANGED <<sessions, nextId, now, ghost>>

\* storage.updateBioPage: update profiles set ...updates where id = id;
\* a name another row holds breaks unique(page_name) and throws (500); no row
\* matched answers 200 with an empty body
UpdateBioPageUpdate(p) ==
    /\ reqs[p].pc = "ubp_update"
    /\ ~ProfileLockedByOther(p, {reqs[p].id})
    /\ LET r == reqs[p]
       IN  IF r.id \notin Dom(profiles)
           THEN /\ UNCHANGED profiles
                /\ reqs' = Respond(p, 200)
           ELSE IF r.newPageName # <<>> /\ ~PageNameFree(r.newPageName[1], r.id)
           THEN /\ UNCHANGED profiles
                /\ reqs' = Respond(p, 500)
           ELSE /\ profiles' = [profiles EXCEPT ![r.id].pageName =
                                   IF r.newPageName = <<>> THEN @ ELSE r.newPageName[1]]
                /\ reqs' = Respond(p, 200)
    /\ UNCHANGED <<users, socialLinks, themes, sessions, nextId, now, ghost>>

\* PATCH /api/profile/:id: getProfileById, the ownership test and
\* updateProfileSchema.parse({ id, ...req.body }): insertProfileSchema.partial()
\* keeps userId, pageName (any text) and isDefault of the body, and a body
\* field id replaces the path's id in the updates
PatchProfileStart(p, u, id, body) ==
    /\ reqs[p].pc = "idle"
    /\ u \in Dom(users)
    /\ LET st == IF getProfileById(id) = NoId THEN 404
                 ELSE IF profiles[id].userId # u THEN 403
                 ELSE 0
       IN reqs' = [reqs EXCEPT ![p] =
            [pc |-> IF st # 0 THEN "done" ELSE "up_update",
             op |-> "updateProfile", caller |-> u, id |-> id,
             existingPageName |-> IF st # 0 THEN <<>> ELSE profiles[id].pageName,
             newId |-> IF body.id = <<>> THEN id ELSE body.id[1],
             newUserId |-> body.userId, newPageName |-> body.pageName,
             newIsDefault |-> body.isDefault, status |-> st]]
    /\ UNCH_tables /\ UNCHANGED <<sessions, nextId, now, ghost>>

\* the row storage.updateProfile writes
UpdateProfileRow(row, r) ==
    [row EXCEPT !.userId = IF r.newUserId = <<>> THEN @ ELSE r.newUserId[1],
                !.pageName = IF r.newPageName = <<>> THEN @ ELSE r.newPageName[1],
                !.isDefault = IF r.newIsDefault = <<>> THEN @ ELSE r.newIsDefault[1]]

\* storage.updateProfile: update profiles set ...updates where id = id; the
\* statement throws (500) for a new id another row holds (primary key), a new
\* id while a theme references the row, a userId that is no user, and a
\* pageName another row holds; no row matched answers 200 with an empty body
UpdateProfileUpdate(p) ==
    /\ reqs[p].pc = "up_update"
    /\ ~ProfileLockedByOther(p, {reqs[p].id})
    /\ LET r == reqs[p]
           throws == \/ r.newId # r.id /\ r.newId \in Dom(profiles)
                     \/ r.newId # r.id /\ r.id \in ProfilesReferencedByThemes
                     \/ r.newUserId # <<>> /\ r.newUserId[1] \notin Dom(users)
                     \/ r.newPageName # <<>> /\ ~PageNameFree(r.newPageName[1], r.id)
       IN  IF r.id \notin Dom(profiles)
           THEN /\ UNCHANGED profiles
                /\ reqs' = Respond(p, 200)
           ELSE IF throws
           THEN /\ UNCHANGED profiles
                /\ reqs' = Respond(p, 500)
           ELSE /\ profiles' = Insert(Delete(profiles, {r.id}), r.newId,
                                      UpdateProfileRow(profiles[r.id], r))
                /\ reqs' = Respond(p, 200)
    /\ UNCHANGED <<users, socialLinks, themes, sessions, nextId, now, ghost>>

(***************************************************************************)
(* Theme routes (routes.ts) and the theme methods of storage.ts.           *)
(* An ownership check reads the theme and then the profile it names; no    *)
(* single statement writes both tables, so the two reads are one step.     *)
(***************************************************************************)
getTheme(id) == IF id \in Dom(themes) THEN id ELSE NoId

getActiveTheme(pid) == {t \in Dom(themes) : themes[t].profileId = pid /\ themes[t].isActive}

\* 0 when caller u owns the profile of theme id, else the handler's answer
ThemeOwnerCheck(u, id) ==
    IF getTheme(id) = NoId THEN 404
    ELSE IF getProfileById(themes[id].profileId) = NoId
            \/ profiles[themes[id].profileId].userId # u THEN 403
    ELSE 0

\* POST /api/themes: insertThemeSchema.parse keeps profileId and the theme
\* documents only; the profile must exist and belong to the caller
PostThemeStart(p, u, pid) ==
    /\ reqs[p].pc = "idle"
    /\ u \in Dom(users)
    /\ nextId.theme + Cardinality({q \in Procs : reqs[q].pc = "ct_insert"}) <= MaxThemes
    /\ LET ok == getProfileById(pid) # NoId /\ profiles[pid].userId = u
       IN reqs' = [reqs EXCEPT ![p] =
            [pc |-> IF ok THEN "ct_insert" ELSE "done", op |-> "createTheme",
             caller |-> u, profileId |-> pid, status |-> IF ok THEN 0 ELSE 403]]
    /\ UNCH_tables /\ UNCHANGED <<sessions, nextId, now, ghost>>

\* storage.createTheme: INSERT; is_active takes the column default (false)
CreateThemeInsert(p) ==
    /\ reqs[p].pc = "ct_insert"
    /\ IF reqs[p].profileId \in Dom(profiles)
       THEN /\ themes' = Insert(themes, nextId.theme,
                    [profileId |-> reqs[p].profileId, isActive |-> FALSE])
            /\ nextId' = [nextId EXCEPT !.theme = nextId.theme + 1]
            /\ reqs' = Respond(p, 201)
       ELSE /\ UNCHANGED <<themes, nextId>>
            /\ reqs' = Respond(p, 500)
    /\ UNCHANGED <<users, profiles, socialLinks, sessions, now, ghost>>

\* the columns a PATCH /api/themes/:id body may set: updateThemeSchema is
\* insertThemeSchema.partial(), which has profileId and no isActive
UpdateThemeRow(row, newPid) ==
    IF newPid = NoId THEN row ELSE [row EXCEPT !.profileId = newPid]

\* PATCH /api/themes/:id: ownership check of the theme as it is now
PatchThemeStart(p, u, id, newPid) ==
    /\ reqs[p].pc = "idle"
    /\ u \in Dom(users)
    /\ reqs' = [reqs EXCEPT ![p] =
            [pc |-> IF ThemeOwnerCheck(u, id) = 0 THEN "ut_update" ELSE "done",
             op |-> "updateTheme", caller |-> u, id |-> id, newProfileId |-> newPid,
             status |-> ThemeOwnerCheck(u, id)]]
    /\ UNCH_tables /\ UNCHANGED <<sessions, nextId, now, ghost>>

\* storage.updateTheme: update themes set ...updates where id = id
UpdateThemeUpdate(p) ==
    /\ reqs[p].pc = "ut_update"
    /\ ~ThemeLockedByOther(p, {reqs[p].id})
    /\ LET r == reqs[p]
       IN  IF r.newProfileId # NoId /\ r.newProfileId \notin Dom(profiles) /\ r.id \in Dom(themes)
           THEN /\ UNCHANGED themes
                /\ reqs' = Respond(p, 500)
           ELSE /\ themes' = [t \in Dom(themes) |->
                        IF t = r.id THEN UpdateThemeRow(themes[t], r.newProfileId) ELSE themes[t]]
                /\ reqs' = Respond(p, 200)
    /\ UNCHANGED <<users, profiles, socialLinks, sessions, nextId, now, ghost>>

\* DELETE /api/themes/:id
DeleteThemeStart(p, u, id) ==
    /\ reqs[p].pc = "idle"
    /\ u \in Dom(users)
    /\ reqs' = [reqs EXCEPT ![p] =
            [pc |-> IF ThemeOwnerCheck(u, id) = 0 THEN "dt_delete" ELSE "done",
             op |-> "deleteTheme", caller |-> u, id |-> id,
             status |-> ThemeOwnerCheck(u, id)]]
    /\ UNCH_tables /\ UNCHANGED <<sessions, nextId, now, ghost>>

\* storage.deleteTheme
DeleteThemeDelete(p) ==
    /\ reqs[p].pc = "dt_delete"
    /\ ~ThemeLockedByOther(p, {reqs[p].id})
    /\ themes' = Delete(themes, {reqs[p].id})
    /\ reqs' = Respond(p, 204)
    /\ UNCHANGED <<users, profiles, socialLinks, sessions, nextId, now, ghost>>

\* POST /api/themes/:id/activate: storage.activateTheme(id, existingTheme.profileId)
ActivateThemeStart(p, u, id) ==
    /\ reqs[p].pc = "idle"
    /\ u \in Dom(users)
    /\ reqs' = [reqs EXCEPT ![p] =
            [pc |-> IF ThemeOwnerCheck(u, id) = 0 THEN "at_unset" ELSE "done",
             op |-> "activateTheme", caller |-> u, id |-> id,
             profileId |-> IF getTheme(id) = NoId THEN NoId ELSE themes[id].profileId,
             rows |-> {}, status |-> ThemeOwnerCheck(u, id)]]
    /\ UNCH_tables /\ UNCHANGED <<sessions, nextId, now, ghost>>

\* tx: update themes set isActive = false where profileId = profileId
ActivateThemeUnset(p) ==
    /\ reqs[p].pc = "at_unset"
    /\ LET rows == {t \in Dom(themes) : themes[t].profileId = reqs[p].profileId}
       IN /\ ~ThemeLockedByOther(p, rows)
          /\ reqs' = [reqs EXCEPT ![p] = [reqs[p] EXCEPT !.pc = "at_set", !.rows = rows]]
    /\ UNCH_tables /\ UNCHANGED <<sessions, nextId, now, ghost>>

\* the rows the second UPDATE of activateTheme matches
ActivateThemeTarget(id, pid) == {t \in Dom(themes) : t = id /\ themes[t].profileId = pid}

\* tx: update themes set isActive = true where id = themeId and profileId =
\* profileId; the transaction commits whether or not a row matched
ActivateThemeSet(p) ==
    /\ reqs[p].pc = "at_set"
    /\ LET r == reqs[p]
           target == ActivateThemeTarget(r.id, r.profileId)
       IN  /\ ~ThemeLockedByOther(p, target)
           /\ themes' = [t \in Dom(themes) |->
                  IF t \in target THEN [themes[t] EXCEPT !.isActive = TRUE]
                  ELSE IF t \in r.rows THEN [themes[t] EXCEPT !.isActive = FALSE]
                  ELSE themes[t]]
           /\ reqs' = Respond(p, 200)
    /\ UNCHANGED <<users, profiles, socialLinks, sessions, nextId, now, ghost>>

(***************************************************************************)
(* Initial states.                                                         *)
(***************************************************************************)
\* a registered, verified user
UserRow(email, admin) ==
    [email |-> email, password |-> <<"bcrypt", "password1">>, isEmailVerified |-> TRUE,
     emailVerificationToken |-> NoId, emailVerificationExpires |-> NoId,
     passwordResetToken |-> NoId, passwordResetExpires |-> NoId, isAdmin |-> admin]

\* every address is at one domain: an email is its local part, a sequence
\* of characters
TwoUsers == (1 :> UserRow(<<"a">>, FALSE)) @@ (2 :> UserRow(<<"b">>, FALSE))

NoRows == [i \in {} |-> i]

InitCommon ==
    /\ reqs = [p \in Procs |-> Idle]
    /\ now = 0

(***************************************************************************)
(* SpecPages: user 1 manages bio pages (and may attach a theme to a page)  *)
(* through two concurrent requests; user 2 owns one page of its own.       *)
(***************************************************************************)
PageRow(u, name, isDefault) ==
    [userId |-> u, pageName |-> name, isDefault |-> isDefault, profileViews |-> 0, linkClicks |-> 0]

Callers == {1}        \* the users whose sessions send the requests

InitPages ==
    /\ sessions = NoRows
    /\ ghost = NoRows
    /\ InitCommon
    /\ users = TwoUsers
    /\ profiles = (1 :> PageRow(2, <<"c">>, TRUE))
    /\ socialLinks = NoRows
    /\ themes = NoRows
    /\ nextId = [user |-> 3, profile |-> 2, link |-> 1, theme |-> 1, token |-> 1]

PagesStart(p) ==
    \/ \E u \in Callers, name \in PageNames : PostBioPageStart(p, u, name)
    \/ \E u \in Callers, id \in 1..MaxProfiles : DeleteBioPageStart(p, u, id)
    \/ \E u \in Callers, pid \in 1..MaxProfiles : PostThemeStart(p, u, pid)

PagesStep(p) ==
    \/ CreateBioPageRead(p)
    \/ CreateBioPageInsert(p)
    \/ DeleteBioPageOther(p)
    \/ DeleteBioPagePromote(p)
    \/ DeleteBioPageDelete(p)
    \/ SetDefaultUnset(p)
    \/ SetDefaultSet(p)
    \/ CreateThemeInsert(p)
    \/ Complete(p)

NextPages ==
    \E p \in Procs :
        \/ PagesStart(p)
        \/ \E u \in Callers, id \in 1..MaxProfiles : SetDefaultStart(p, u, id)
        \/ PagesStep(p)

SpecPages == InitPages /\ [][NextPages]_vars

(***************************************************************************)
(* SpecPagesSeq: the same requests, one at a time, except that             *)
(* set-default requests may overlap one another.                           *)
(***************************************************************************)
Quiet(p) == reqs[p].pc \in {"idle", "done"}
OthersQuiet(p) == \A q \in Procs \ {p} : Quiet(q)
OthersQuietOrSettingDefault(p) ==
    \A q \in Procs \ {p} : Quiet(q) \/ reqs[q].op = "setDefaultBioPage"

NextPagesSeq ==
    \E p \in Procs :
        \/ OthersQuiet(p) /\ \E u \in Callers, name \in PageNames : PostBioPageStart(p, u, name)
        \/ OthersQuiet(p) /\ \E u \in Callers, id \in 1..MaxProfiles : DeleteBioPageStart(p, u, id)
        \/ OthersQuiet(p) /\ \E u \in Callers, pid \in 1..MaxProfiles : PostThemeStart(p, u, pid)
        \/ OthersQuietOrSettingDefault(p)
             /\ \E u \in Callers, id \in 1..MaxProfiles : SetDefaultStart(p, u, id)
        \/ PagesStep(p)

SpecPagesSeq == InitPages /\ [][NextPagesSeq]_vars

Quiescent == \A p \in Procs : Quiet(p)

\* C1: at rest, every user who owns a page has exactly one default page,
\* after any sequence of create / delete / set-default requests in which only
\* set-default requests overlap (checked under SpecPagesSeq).
C1_ExactlyOneDefault ==
    Quiescent =>
        \A u \in Dom(users) :
            getProfilesByUserId(u) # {} => Cardinality(DefaultProfilesOf(u)) = 1

\* C2: two concurrent createBioPage requests of one user that both saw the
\* user without a page do not leave that user with two default pages.
C2_NoTwoFirstDefaults ==
    \A p, q \in Procs :
        (/\ p # q
         /\ reqs[p].pc = "done" /\ reqs[p].op = "createBioPage"
         /\ reqs[q].pc = "done" /\ reqs[q].op = "createBioPage"
         /\ reqs[p].caller = reqs[q].caller
         /\ reqs[p].isFirstPage /\ reqs[q].isFirstPage)
        => Cardinality(DefaultProfilesOf(reqs[p].caller)) <= 1

PageNamesUnique ==
    \A i, j \in Dom(profiles) : profiles[i].pageName = profiles[j].pageName => i = j

\* C4: page names are unique, and a create request whose page name is held by
\* a profile (when the handler checks, or when its INSERT runs) is answered 409.
C4_DuplicateNameIs409 ==
    /\ PageNamesUnique
    /\ \A p \in Procs :
          (reqs[p].pc = "done" /\ reqs[p].op = "createBioPage" /\ reqs[p].nameTaken)
          => reqs[p].status = 409

(***************************************************************************)
(* SpecThemes: the theme routes over two pages, one per user.              *)
(***************************************************************************)
InitThemes ==
    /\ sessions = NoRows
    /\ ghost = NoRows
    /\ InitCommon
    /\ users = TwoUsers
    /\ profiles = (1 :> PageRow(1, <<"a">>, TRUE)) @@ (2 :> PageRow(2, <<"b">>, TRUE))
    /\ socialLinks = NoRows
    /\ themes = NoRows
    /\ nextId = [user |-> 3, profile |-> 3, link |-> 1, theme |-> 1, token |-> 1]

NextThemes ==
    \E p \in Procs :
        \/ \E u \in Dom(users), pid \in Dom(profiles) : PostThemeStart(p, u, pid)
        \/ CreateThemeInsert(p)
        \/ \E u \in Dom(users), id \in 1..MaxThemes, np \in Dom(profiles) \cup {NoId} :
              PatchThemeStart(p, u, id, np)
        \/ UpdateThemeUpdate(p)
        \/ \E u \in Dom(users), id \in 1..MaxThemes : DeleteThemeStart(p, u, id)
        \/ DeleteThemeDelete(p)
        \/ \E u \in Dom(users), id \in 1..MaxThemes : ActivateThemeStart(p, u, id)
        \/ ActivateThemeUnset(p)
        \/ ActivateThemeSet(p)
        \/ Complete(p)

SpecThemes == InitThemes /\ [][NextThemes]_vars

\* C3: in every reachable state a profile has at most one active theme.
C3_AtMostOneActiveTheme ==
    \A pid \in Dom(profiles) : Cardinality(getActiveTheme(pid)) <= 1

(***************************************************************************)
(* Route dispatch (routes.ts, registerRoutes).  express tries the routes   *)
(* in the order they were registered and runs the first one whose method   *)
(* and path pattern match; none of the handlers below calls next(), so a   *)
(* later route that matches the same request never runs.                   *)
(***************************************************************************)
\* the named parameters of the path patterns; a parameter matches any segment
ParamSegments == {":id", ":profileId", ":pageName"}

Route(method, path, handler) == [method |-> method, path |-> path, handler |-> handler]

\* the link and theme routes, in registration order
RouteTable == <<
    Route("POST",   <<"api", "links">>,                   "createLink"),
    Route("PATCH",  <<"api", "links", ":id">>,            "updateLink"),
    Route("DELETE", <<"api", "links", ":id">>,            "deleteLink"),
    Route("PATCH",  <<"api", "links", "reorder">>,        "reorderLinks"),
    Route("POST",   <<"api", "links", ":id", "click">>,   "clickLink"),
    Route("GET",    <<"api", "themes", ":profileId">>,    "getActiveTheme"),
    Route("GET",    <<"api", "themes", "presets">>,       "getPresetThemes"),
    Route("POST",   <<"api", "themes">>,                  "createTheme"),
    Route("PATCH",  <<"api", "themes", ":id">>,           "updateTheme"),
    Route("DELETE", <<"api", "themes", ":id">>,           "deleteTheme"),
    Route("POST",   <<"api", "themes", ":id", "activate">>, "activateTheme") >>

MatchPath(pattern, path) ==
    /\ Len(pattern) = Len(path)
    /\ \A k \in 1..Len(path) : pattern[k] \in ParamSegments \/ pattern[k] = path[k]

\* the handler that serves a request, "none" when no route matches
Dispatch(method, path) ==
    LET hits == {k \in 1..Len(RouteTable) :
                    RouteTable[k].method = method /\ MatchPath(RouteTable[k].path, path)}
    IN  IF hits = {} THEN "none"
        ELSE RouteTable[CHOOSE k \in hits : \A j \in hits : k <= j].handler

(***************************************************************************)
(* Link routes (routes.ts) and the link methods of storage.ts.  Link ids   *)
(* are strings, as req.params.id is.  social_links.profile_id has no       *)
(* references() clause: no statement on links or profiles throws for it.   *)
(* An optional body field is <<>> when absent and <<v>> when present.      *)
(***************************************************************************)
LinkRow(pid, order) == [profileId |-> pid, order |-> order, clicks |-> 0, url |-> "u"]

getSocialLink(id) == id \in Dom(socialLinks)

\* select ... where profileId = profileId order by "order" asc: every row
\* sequence the ORDER BY allows (rows of equal order come in any order)
getSocialLinks(pid) ==
    LET rows == {l \in Dom(socialLinks) : socialLinks[l].profileId = pid}
    IN  {s \in [1..Cardinality(rows) -> rows] :
            /\ \A i, j \in DOMAIN s : i # j => s[i] # s[j]
            /\ \A i, j \in DOMAIN s : i < j => socialLinks[s[i]].order <= socialLinks[s[j]].order}

\* 0 when caller u owns the profile of link id, else the handler's answer
LinkOwnerCheck(u, id) ==
    IF ~getSocialLink(id) THEN 404
    ELSE IF getProfileById(socialLinks[id].profileId) = NoId
            \/ profiles[socialLinks[id].profileId].userId # u THEN 403
    ELSE 0

\* POST /api/links: the profile named in the body must belong to the caller
PostLinkStart(p, u, pid) ==
    /\ reqs[p].pc = "idle"
    /\ u \in Dom(users)
    /\ nextId.link + Cardinality({q \in Procs : reqs[q].pc = "cl_insert"}) <= MaxLinks
    /\ LET ok == getProfileById(pid) # NoId /\ profiles[pid].userId = u
       IN reqs' = [reqs EXCEPT ![p] =
            [pc |-> IF ok THEN "cl_insert" ELSE "done", op |-> "createLink",
             caller |-> u, profileId |-> pid, status |-> IF ok THEN 0 ELSE 403]]
    /\ UNCH_tables /\ UNCHANGED <<sessions, nextId, now, ghost>>

\* storage.createSocialLink: INSERT; "order" and clicks take the column default
CreateLinkInsert(p) ==
    /\ reqs[p].pc = "cl_insert"
    /\ socialLinks' = Insert(socialLinks, ToString(nextId.link), LinkRow(reqs[p].profileId, 0))
    /\ nextId' = [nextId EXCEPT !.link = nextId.link + 1]
    /\ reqs' = Respond(p, 201)
    /\ UNCHANGED <<users, profiles, themes, sessions, now, ghost>>

\* the locals of PATCH /api/links/:id after its ownership check.
\* updateSocialLinkSchema.parse({ id, ...req.body }): a body field id replaces
\* the path's id in the updates; order and profileId are columns of
\* insertSocialLinkSchema.partial(); linkIds is not a key of the schema and is
\* stripped.
UpdateLinkBegin(u, id, body) ==
    [pc |-> IF LinkOwnerCheck(u, id) = 0 THEN "ul_update" ELSE "done",
     op |-> "updateLink", caller |-> u, id |-> id,
     newId |-> IF body.id = <<>> THEN id ELSE body.id[1],
     newOrder |-> body.order, newProfileId |-> body.profileId,
     orderWrites |-> {}, status |-> LinkOwnerCheck(u, id)]

\* the row storage.updateSocialLink writes
UpdateLinkRow(row, r) ==
    [row EXCEPT !.order = IF r.newOrder = <<>> THEN @ ELSE r.newOrder[1],
                !.profileId = IF r.newProfileId = <<>> THEN @ ELSE r.newProfileId[1]]

\* a reorder in its UPDATE loop, or finished, whose rows another request
\* writes is no longer alone on its rows (history for stating C5)
Disturb(rq, p, ids) ==
    [q \in Procs |->
        IF q # p /\ rq[q].op = "reorderLinks" /\ rq[q].pc \in {"ro_update", "done"}
           /\ \E k \in 1..Len(rq[q].linkIds) : rq[q].linkIds[k] \in ids
        THEN [rq[q] EXCEPT !.alone = FALSE]
        ELSE rq[q]]

\* storage.updateSocialLink: update social_links set ...updates where id = id;
\* a new id that another row holds breaks the primary key (500); no row
\* matched answers 200 with an empty body
UpdateLinkUpdate(p) ==
    /\ reqs[p].pc = "ul_update"
    /\ LET r == reqs[p]
       IN  IF r.id \notin Dom(socialLinks)
           THEN /\ UNCHANGED socialLinks
                /\ reqs' = Respond(p, 200)
           ELSE IF r.newId # r.id /\ r.newId \in Dom(socialLinks)
           THEN /\ UNCHANGED socialLinks
                /\ reqs' = Respond(p, 500)
           ELSE /\ socialLinks' = Insert(Delete(socialLinks, {r.id}), r.newId,
                                         UpdateLinkRow(socialLinks[r.id], r))
                /\ reqs' = Disturb([reqs EXCEPT ![p] = [r EXCEPT !.pc = "done", !.status = 200,
                                !.orderWrites = IF r.newOrder = <<>> THEN {} ELSE {r.id}]],
                                   p, {r.id})
    /\ UNCHANGED <<users, profiles, themes, sessions, nextId, now, ghost>>

\* DELETE /api/links/:id
DeleteLinkStart(p, u, id) ==
    /\ reqs[p].pc = "idle"
    /\ u \in Dom(users)
    /\ reqs' = [reqs EXCEPT ![p] =
            [pc |-> IF LinkOwnerCheck(u, id) = 0 THEN "dl_delete" ELSE "done",
             op |-> "deleteLink", caller |-> u, id |-> id,
             status |-> LinkOwnerCheck(u, id)]]
    /\ UNCH_tables /\ UNCHANGED <<sessions, nextId, now, ghost>>

\* storage.deleteSocialLink
DeleteLinkDelete(p) ==
    /\ reqs[p].pc = "dl_delete"
    /\ socialLinks' = Delete(socialLinks, {reqs[p].id})
    /\ reqs' = Disturb(Respond(p, 204), p, {reqs[p].id})
    /\ UNCHANGED <<users, profiles, themes, sessions, nextId, now, ghost>>

(***************************************************************************)
(* The handler registered for PATCH /api/links/reorder and                 *)
(* storage.reorderSocialLinks.                                             *)
(***************************************************************************)
\* the answer of the ownership loop for one list entry, 0 to go on
ReorderCheckOne(u, id) == LinkOwnerCheck(u, id)

\* the locals of the handler after reorderLinksSchema.parse: a body without
\* linkIds is a ZodError (400); an empty list skips the loops
ReorderBegin(u, body) ==
    [pc |-> IF body.linkIds = <<>> \/ body.linkIds[1] = <<>> THEN "done" ELSE "ro_check",
     op |-> "reorderLinks", caller |-> u,
     linkIds |-> IF body.linkIds = <<>> THEN <<>> ELSE body.linkIds[1],
     i |-> 0, alone |-> TRUE, orderWrites |-> {},
     status |-> IF body.linkIds = <<>> THEN 400 ELSE IF body.linkIds[1] = <<>> THEN 200 ELSE 0]

\* for (const linkId of linkIds): getSocialLink, getProfileById, 404 / 403
ReorderCheck(p) ==
    /\ reqs[p].pc = "ro_check"
    /\ LET r == reqs[p]
           st == ReorderCheckOne(r.caller, r.linkIds[r.i + 1])
       IN  reqs' = [reqs EXCEPT ![p] =
              IF st # 0 THEN [r EXCEPT !.pc = "done", !.status = st]
              ELSE IF r.i + 1 < Len(r.linkIds) THEN [r EXCEPT !.i = r.i + 1]
              ELSE [r EXCEPT !.pc = "ro_update", !.i = 0]]
    /\ UNCH_tables /\ UNCHANGED <<sessions, nextId, now, ghost>>

\* the loop writing its zero-based index
OrderForIndexZeroBased(i) == i

\* the order value written in iteration i of for (let i = 0; ...)
OrderForIndex(i) == i + 1

\* one iteration: update social_links set "order" = i + 1 where id = linkIds[i]
ReorderUpdate(p) ==
    /\ reqs[p].pc = "ro_update"
    /\ LET r == reqs[p]
           id == r.linkIds[r.i + 1]
           last == r.i + 1 = Len(r.linkIds)
       IN  /\ socialLinks' = [l \in Dom(socialLinks) |->
                  IF l = id THEN [socialLinks[l] EXCEPT !.order = OrderForIndex(r.i)]
                  ELSE socialLinks[l]]
           /\ reqs' = Disturb([reqs EXCEPT ![p] = [r EXCEPT
                          !.i = r.i + 1,
                          !.orderWrites = IF id \in Dom(socialLinks) THEN @ \cup {id} ELSE @,
                          !.pc = IF last THEN "done" ELSE "ro_update",
                          !.status = IF last THEN 200 ELSE 0]], p, {id})
    /\ UNCHANGED <<users, profiles, themes, sessions, nextId, now, ghost>>

(***************************************************************************)
(* SpecReorder: the reorder handler run for user 1 over three links:       *)
(* links "1" and "2" on user 1's page, link "3" on user 2's page.          *)
(***************************************************************************)
MaxReorderLen == 2    \* length of the id lists of reorder requests

Body(id, order, pid, linkIds) ==
    [id |-> id, order |-> order, profileId |-> pid, linkIds |-> linkIds]

\* the id lists of length 0..MaxReorderLen over a set of ids
IdLists(ids) == UNION {[1..n -> ids] : n \in 0..MaxReorderLen}

InitLinksCommon ==
    /\ sessions = NoRows
    /\ InitCommon
    /\ users = TwoUsers
    /\ profiles = (1 :> PageRow(1, <<"a">>, TRUE)) @@ (2 :> PageRow(2, <<"b">>, TRUE))
    /\ themes = NoRows

InitReorder ==
    /\ ghost = NoRows
    /\ InitLinksCommon
    /\ socialLinks = ("1" :> LinkRow(1, 0)) @@ ("2" :> LinkRow(1, 0)) @@ ("3" :> LinkRow(2, 0))
    /\ nextId = [user |-> 3, profile |-> 3, link |-> 4, theme |-> 1, token |-> 1]

ReorderStart(p, u, ids) ==
    /\ reqs[p].pc = "idle"
    /\ u \in Dom(users)
    /\ reqs' = [reqs EXCEPT ![p] = ReorderBegin(u, Body(<<>>, <<>>, <<>>, <<ids>>))]
    /\ UNCH_tables /\ UNCHANGED <<sessions, nextId, now, ghost>>

NextReorder ==
    \E p \in Procs :
        \/ \E u \in Callers, ids \in IdLists(Dom(socialLinks)) : ReorderStart(p, u, ids)
        \/ ReorderCheck(p)
        \/ ReorderUpdate(p)
        \/ Complete(p)

SpecReorder == InitReorder /\ [][NextReorder]_vars

Distinct(s) == \A i, j \in 1..Len(s) : i # j => s[i] # s[j]

\* the rows of s that are in ids, in the order of s
Restrict(s, ids) ==
    LET In(x) == \E k \in 1..Len(ids) : ids[k] = x
    IN  SelectSeq(s, In)

\* a reorder that has completed on distinct links of one profile, with no
\* other request writing those rows since its UPDATE loop began
ReorderCompleted(p) ==
    /\ reqs[p].pc = "done" /\ reqs[p].op = "reorderLinks" /\ reqs[p].status = 200
    /\ reqs[p].alone
    /\ Len(reqs[p].linkIds) >= 1
    /\ Distinct(reqs[p].linkIds)
    /\ \A k \in 1..Len(reqs[p].linkIds) :
          /\ reqs[p].linkIds[k] \in Dom(socialLinks)
          /\ socialLinks[reqs[p].linkIds[k]].profileId = socialLinks[reqs[p].linkIds[1]].profileId

\* C5: after a reorder of distinct links of one profile completes, the link
\* at position i of the list has order i, and getSocialLinks of that profile
\* returns those links in the order of the list.
C5_ReorderAssignsPositions ==
    \A p \in Procs :
        ReorderCompleted(p) =>
            LET ids == reqs[p].linkIds
            IN  /\ \A i \in 1..Len(ids) : socialLinks[ids[i]].order = i
                /\ \A s \in getSocialLinks(socialLinks[ids[1]].profileId) : Restrict(s, ids) = ids

C5_Witness ==
    \E p \in Procs :
        /\ ReorderCompleted(p)
        /\ reqs[p].linkIds = <<"2", "1">>
        /\ getSocialLinks(1) = {<<"2", "1">>}

(***************************************************************************)
(* SpecLinks: the link routes as requests reach them, one request at a     *)
(* time.  User 1 sends the requests; link "1" is on user 2's page.         *)
(***************************************************************************)
InitLinks ==
    /\ ghost = NoRows
    /\ InitLinksCommon
    /\ socialLinks = ("1" :> LinkRow(2, 0))
    /\ nextId = [user |-> 3, profile |-> 3, link |-> 2, theme |-> 1, token |-> 1]

\* the ids gen_random_uuid() hands out within the bound
LinkIds == {ToString(n) : n \in 1..MaxLinks}

\* the last path segment of the requests: a link id, or the word reorder
LinkSegments == LinkIds \cup {"reorder"}

UpdateBodies ==
    {Body(<<>>, <<1>>, <<>>, <<>>),
     Body(<<>>, <<>>, <<2>>, <<>>),
     Body(<<"reorder">>, <<>>, <<>>, <<>>)}

ReorderBodies == {Body(<<>>, <<>>, <<>>, <<ids>>) : ids \in IdLists(LinkIds)}

\* the list names a link whose parent profile the caller does not own
ForeignLinkIn(u, ids) ==
    \E k \in 1..Len(ids) : getSocialLink(ids[k]) /\ LinkOwnerCheck(u, ids[k]) # 0

\* PATCH /api/links/<seg>: the first registered route that matches serves it
PatchLinksRequest(p, u, seg, body) ==
    /\ reqs[p].pc = "idle"
    /\ u \in Dom(users)
    /\ LET path == <<"api", "links", seg>>
           locals == IF Dispatch("PATCH", path) = "updateLink"
                     THEN UpdateLinkBegin(u, seg, body)
                     ELSE ReorderBegin(u, body)
       IN  reqs' = [reqs EXCEPT ![p] = locals @@
                [path |-> path,
                 foreign |-> body.linkIds # <<>> /\ ForeignLinkIn(u, body.linkIds[1])]]
    /\ UNCH_tables /\ UNCHANGED <<sessions, nextId, now, ghost>>

\* every other slot has handed back its response
OthersIdle(p) == \A q \in Procs \ {p} : reqs[q].pc = "idle"

NextLinks ==
    \E p \in Procs :
        \/ OthersIdle(p) /\ \E u \in Callers, pid \in Dom(profiles) : PostLinkStart(p, u, pid)
        \/ OthersIdle(p)
             /\ \E u \in Callers, seg \in LinkSegments, body \in UpdateBodies \cup ReorderBodies :
                    PatchLinksRequest(p, u, seg, body)
        \/ OthersIdle(p) /\ \E u \in Callers, id \in LinkSegments : DeleteLinkStart(p, u, id)
        \/ CreateLinkInsert(p)
        \/ UpdateLinkUpdate(p)
        \/ DeleteLinkDelete(p)
        \/ Complete(p)

SpecLinks == InitLinks /\ [][NextLinks]_vars

\* a finished PATCH /api/links/reorder
ReorderRequestDone(p) ==
    /\ reqs[p].pc = "done"
    /\ reqs[p].op \in {"updateLink", "reorderLinks"}
    /\ reqs[p].path = <<"api", "links", "reorder">>

\* C6: a reorder request whose list names a link on a page the caller does
\* not own is answered 403 and has set no link's order value.
C6_ForeignReorderIs403 ==
    \A p \in Procs :
        (ReorderRequestDone(p) /\ reqs[p].foreign)
        => (reqs[p].status = 403 /\ reqs[p].orderWrites = {})

\* C25: the literal-path routes are reachable: a PATCH /api/links/reorder is
\* served by the reorder handler, not by the update handler with id
\* "reorder", and GET /api/themes/presets by the preset catalog handler, not
\* by the active-theme handler with profile id "presets".
C25_LiteralRoutesReachable ==
    /\ \A p \in Procs :
          "path" \in DOMAIN reqs[p] /\ reqs[p].path = <<"api", "links", "reorder">>
              => reqs[p].op = "reorderLinks"
    /\ Dispatch("GET", <<"api", "themes", "presets">>) = "getPresetThemes"

(***************************************************************************)
(* GET /api/profile/:pageName (routes.ts) and storage.incrementProfileViews *)
(***************************************************************************)
\* the number of incrementProfileViews calls that have run on profile id
\* (history for stating C7)
Calls(id) == ghost.calls[id]

\* const profile = await storage.getProfileByPageName(pageName); 404 if none
GetProfileStart(p, name) ==
    /\ reqs[p].pc = "idle"
    /\ LET id == getProfileByPageName(name)
       IN  /\ id # NoId =>
                Calls(id) + Cardinality({q \in Procs : reqs[q].pc = "view_incr" /\ reqs[q].id = id})
                    < MaxViews
           /\ reqs' = [reqs EXCEPT ![p] =
                [pc |-> IF id = NoId THEN "done" ELSE "view_incr", op |-> "getProfile",
                 id |-> id, profile |-> IF id = NoId THEN NoId ELSE profiles[id],
                 links |-> <<>>, status |-> IF id = NoId THEN 404 ELSE 0]]
    /\ UNCH_tables /\ UNCHANGED <<sessions, nextId, now, ghost>>

\* a read-modify-write on the row the handler read
ViewsFromRead(current, read) == read + 1

\* set profileViews = profile_views + 1: the UPDATE computes the new value
\* from the row as it is when the statement runs, not from the row the
\* handler read
IncrementedViews(current, read) == current + 1

\* storage.incrementProfileViews(profile.id): one UPDATE; no row, no change
IncrementProfileViews(p) ==
    /\ reqs[p].pc = "view_incr"
    /\ LET r == reqs[p]
       IN  /\ profiles' = [i \in Dom(profiles) |->
                  IF i = r.id
                  THEN [profiles[i] EXCEPT
                           !.profileViews = IncrementedViews(@, r.profile.profileViews)]
                  ELSE profiles[i]]
           /\ ghost' = [ghost EXCEPT !.calls = [i \in Dom(ghost.calls) |->
                  IF i = r.id THEN ghost.calls[i] + 1 ELSE ghost.calls[i]]]
    /\ reqs' = Goto(p, "view_links")
    /\ UNCHANGED <<users, socialLinks, themes, sessions, nextId, now>>

\* const links = await storage.getSocialLinks(profile.id); res.json
GetProfileLinks(p) ==
    /\ reqs[p].pc = "view_links"
    /\ \E s \in getSocialLinks(reqs[p].id) :
          reqs' = [reqs EXCEPT ![p] = [reqs[p] EXCEPT !.pc = "done", !.links = s, !.status = 200]]
    /\ UNCH_tables /\ UNCHANGED <<sessions, nextId, now, ghost>>

(***************************************************************************)
(* SpecCounters: concurrent views of two pages (and of a page that does    *)
(* not exist).                                                             *)
(***************************************************************************)
InitCounters ==
    /\ sessions = NoRows
    /\ InitCommon
    /\ users = TwoUsers
    /\ \E v \in 0..1 :
          profiles = (1 :> [PageRow(1, <<"a">>, TRUE) EXCEPT !.profileViews = v])
                     @@ (2 :> PageRow(2, <<"b">>, TRUE))
    /\ socialLinks = ("1" :> LinkRow(1, 0))
    /\ themes = NoRows
    /\ nextId = [user |-> 3, profile |-> 3, link |-> 2, theme |-> 1, token |-> 1]
    /\ ghost = [initial |-> [i \in Dom(profiles) |-> profiles[i].profileViews],
                calls |-> [i \in Dom(profiles) |-> 0]]

NextCounters ==
    \E p \in Procs :
        \/ \E name \in PageNames \cup {<<"c">>} : GetProfileStart(p, name)
        \/ IncrementProfileViews(p)
        \/ GetProfileLinks(p)
        \/ Complete(p)

SpecCounters == InitCounters /\ [][NextCounters]_vars

\* C7: after N incrementProfileViews calls on a profile, in any interleaving,
\* its profileViews is its initial value plus N; a profile that was not
\* viewed keeps its value.
C7_NoLostViews ==
    \A i \in Dom(profiles) : profiles[i].profileViews = ghost.initial[i] + Calls(i)

\* two requests read page "a" before either increment ran, and both ran
C7_Witness ==
    /\ Calls(1) >= 2 /\ Calls(2) = 0
    /\ \A p \in Procs :
          /\ reqs[p].op = "getProfile" /\ reqs[p].pc \in {"view_links", "done"}
          /\ reqs[p].id = 1 /\ reqs[p].profile.profileViews = ghost.initial[1]

(***************************************************************************)
(* POST /api/links/:id/click (routes.ts), storage.incrementLinkClicks and  *)
(* storage.incrementIndividualLinkClick                                    *)
(***************************************************************************)
MaxClicks == 3

\* const link = await storage.getSocialLink(id); 404 if none
RecordClickStart(p, id) ==
    /\ reqs[p].pc = "idle"
    /\ ghost.started < MaxClicks
    /\ LET found == getSocialLink(id)
       IN reqs' = [reqs EXCEPT ![p] =
            [pc |-> IF found THEN "click_profile" ELSE "done", op |-> "recordClick",
             id |-> id, link |-> IF found THEN socialLinks[id] ELSE LinkRow(NoId, 0),
             url |-> "", status |-> IF found THEN 0 ELSE 404]]
    /\ ghost' = [ghost EXCEPT !.started = @ + 1]
    /\ UNCH_tables /\ UNCHANGED <<sessions, nextId, now>>

\* storage.incrementLinkClicks(link.profileId):
\* update profiles set linkClicks = link_clicks + 1 where id = profileId
RecordClickProfile(p) ==
    /\ reqs[p].pc = "click_profile"
    /\ profiles' = [i \in Dom(profiles) |->
            IF i = reqs[p].link.profileId
            THEN [profiles[i] EXCEPT !.linkClicks = @ + 1]
            ELSE profiles[i]]
    /\ reqs' = Goto(p, "click_link")
    /\ UNCHANGED <<users, socialLinks, themes, sessions, nextId, now, ghost>>

\* a read-modify-write on the row the handler read
ClicksFromRead(current, read) == read + 1

\* set clicks = clicks + 1: computed from the row as it is when the UPDATE runs
IncrementedClicks(current, read) == current + 1

\* storage.incrementIndividualLinkClick(id); res.json({ url: link.url })
RecordClickLink(p) ==
    /\ reqs[p].pc = "click_link"
    /\ LET r == reqs[p]
       IN  /\ socialLinks' = [l \in Dom(socialLinks) |->
                  IF l = r.id
                  THEN [socialLinks[l] EXCEPT !.clicks = IncrementedClicks(@, r.link.clicks)]
                  ELSE socialLinks[l]]
           /\ reqs' = [reqs EXCEPT ![p] = [r EXCEPT !.pc = "done", !.status = 200,
                                                    !.url = r.link.url]]
           /\ ghost' = [ghost EXCEPT !.done = [l \in Dom(ghost.done) |->
                  IF l = r.id THEN ghost.done[l] + 1 ELSE ghost.done[l]]]
    /\ UNCHANGED <<users, profiles, themes, sessions, nextId, now>>

(***************************************************************************)
(* SpecClicks: concurrent clicks on the two links of page 1, on the link   *)
(* of page 2 and on a link that does not exist.                            *)
(***************************************************************************)
ClickIds == {"1", "2", "3", "9"}

InitClicks ==
    /\ sessions = NoRows
    /\ InitCommon
    /\ users = TwoUsers
    /\ \E c \in 0..1 :
          /\ profiles = (1 :> [PageRow(1, <<"a">>, TRUE) EXCEPT !.linkClicks = c])
                        @@ (2 :> PageRow(2, <<"b">>, TRUE))
          /\ socialLinks = ("1" :> [LinkRow(1, 0) EXCEPT !.url = "x", !.clicks = c])
                           @@ ("2" :> [LinkRow(1, 1) EXCEPT !.url = "y"])
                           @@ ("3" :> [LinkRow(2, 0) EXCEPT !.url = "z"])
    /\ themes = NoRows
    /\ nextId = [user |-> 3, profile |-> 3, link |-> 4, theme |-> 1, token |-> 1]
    /\ ghost = [links |-> socialLinks, profiles |-> profiles,
                done |-> [l \in Dom(socialLinks) |-> 0], started |-> 0]

NextClicks ==
    \E p \in Procs :
        \/ \E id \in ClickIds : RecordClickStart(p, id)
        \/ RecordClickProfile(p)
        \/ RecordClickLink(p)
        \/ Complete(p)

SpecClicks == InitClicks /\ [][NextClicks]_vars

\* the recordClick calls on link l that have incremented the profile's
\* counter and not yet the link's
ClicksHalfDone(l) ==
    Cardinality({p \in Procs : reqs[p].op = "recordClick" /\ reqs[p].pc = "click_link"
                               /\ reqs[p].id = l})

RECURSIVE ClicksOn(_)
\* the clicks counted so far for profile counters, summed over a set of links
ClicksOn(ls) ==
    IF ls = {} THEN 0
    ELSE LET l == CHOOSE x \in ls : TRUE
         IN  ghost.done[l] + ClicksHalfDone(l) + ClicksOn(ls \ {l})

VerifyTtl == 24       \* hours a verification token lasts

hashPassword(pw) == <<"bcrypt", pw>>
verifyPassword(pw, hashed) == hashed = <<"bcrypt", pw>>

getUserByEmail(email) ==
    IF \E u \in Dom(users) : users[u].email = email
    THEN CHOOSE u \in Dom(users) : users[u].email = email
    ELSE NoId

\* the users whose verification token is `token` (a null column matches nothing)
getUserByVerificationToken(token) ==
    IF \E u \in Dom(users) : users[u].emailVerificationToken = token /\ token # NoId
    THEN CHOOSE u \in Dom(users) : users[u].emailVerificationToken = token
    ELSE NoId

getDefaultProfileByUserId(u) ==
    IF DefaultProfilesOf(u) # {} THEN CHOOSE i \in DefaultProfilesOf(u) : TRUE ELSE NoId

\* POST /register: the body checks, then existingUser = getUserByEmail(email)
RegisterStart(p, email, pw) ==
    /\ reqs[p].pc = "idle"
    /\ nextId.user + Cardinality({q \in Procs : reqs[q].pc = "reg_insert"}) <= MaxUsers
    /\ LET st == IF Len(pw) < 8 THEN 400
                 ELSE IF getUserByEmail(email) # NoId THEN 400 ELSE 0
       IN reqs' = [reqs EXCEPT ![p] =
            [pc |-> IF st = 0 THEN "reg_insert" ELSE "done", op |-> "register",
             email |-> email, password |-> pw, userId |-> NoId, status |-> st]]
    /\ UNCH_tables /\ UNCHANGED <<sessions, nextId, now, ghost>>

\* storage.createUser: INSERT with a fresh token that lasts 24 hours; the
\* unique constraint on users.email makes a second row of one email throw
RegisterInsert(p) ==
    /\ reqs[p].pc = "reg_insert"
    /\ LET r == reqs[p]
       IN  IF getUserByEmail(r.email) # NoId
           THEN /\ UNCHANGED <<users, nextId>>
                /\ reqs' = Respond(p, 500)
           ELSE /\ users' = Insert(users, nextId.user,
                        [email |-> r.email, password |-> hashPassword(r.password),
                         isEmailVerified |-> FALSE,
                         emailVerificationToken |-> nextId.token,
                         emailVerificationExpires |-> now + VerifyTtl,
                         passwordResetToken |-> NoId, passwordResetExpires |-> NoId,
                         isAdmin |-> FALSE])
                /\ nextId' = [nextId EXCEPT !.user = @ + 1, !.token = @ + 1]
                /\ reqs' = [reqs EXCEPT ![p] = [r EXCEPT !.pc = "done", !.status = 200,
                                !.userId = nextId.user]]
    /\ UNCHANGED <<profiles, socialLinks, themes, sessions, now, ghost>>

\* toLowerCase() on the characters the model's emails use
ToLower(c) == IF c = "A" THEN "a" ELSE IF c = "B" THEN "b" ELSE c

\* the characters /[^a-z0-9-_]/g keeps
IsPageNameChar(c) == c \in {"a", "b", "c", "u", "s", "e", "r", "0", "1", "2", "3", "4",
                            "5", "6", "7", "8", "9", "-", "_"}

\* user.email.split("@")[0].toLowerCase().replace(/[^a-z0-9-_]/g, "")
BasePageName(email) ==
    SelectSeq([k \in 1..Len(email) |-> ToLower(email[k])], IsPageNameChar)

\* `${basePageName}${counter}` (the counters of the model have one digit)
WithCounter(base, counter) == base \o <<ToString(counter)>>

\* `user${user.id.slice(-8)}`
FallbackPageName(id) == <<"u", "s", "e", "r", ToString(id)>>

\* GET /verify-email: getUserByVerificationToken, the expiry test
VerifyEmailStart(p, token) ==
    /\ reqs[p].pc = "idle"
    /\ nextId.profile + Cardinality({q \in Procs :
            reqs[q].pc \in {"ve_default", "ve_name", "ve_read", "ve_insert"}}) <= MaxProfiles
    /\ LET u == getUserByVerificationToken(token)
           st == IF u = NoId THEN 400
                 ELSE IF users[u].emailVerificationExpires # NoId
                         /\ users[u].emailVerificationExpires < now THEN 400
                 ELSE 0
       IN reqs' = [reqs EXCEPT ![p] =
            [pc |-> IF st = 0 THEN "ve_default" ELSE "done", op |-> "verifyEmail",
             token |-> token, userId |-> u,
             email |-> IF u = NoId THEN <<>> ELSE users[u].email,
             basePageName |-> <<>>, pageName |-> <<>>, counter |-> 1,
             isFirstPage |-> FALSE, created |-> NoId, status |-> st]]
    /\ UNCH_tables /\ UNCHANGED <<sessions, nextId, now, ghost>>

\* a handler that goes straight to the user update
VerifyEmailNeverCreates(u) == TRUE

\* let profile = ...; if (!profile) { ... createBioPage ... }
VerifyEmailHasProfile(u) == getDefaultProfileByUserId(u) # NoId

\* let profile = await storage.getDefaultProfileByUserId(user.id)
VerifyEmailDefault(p) ==
    /\ reqs[p].pc = "ve_default"
    /\ LET r == reqs[p]
       IN reqs' = [reqs EXCEPT ![p] =
            IF VerifyEmailHasProfile(r.userId)
            THEN [r EXCEPT !.pc = "ve_update"]
            ELSE [r EXCEPT !.pc = "ve_name", !.basePageName = BasePageName(r.email),
                           !.pageName = BasePageName(r.email), !.counter = 1]]
    /\ UNCH_tables /\ UNCHANGED <<sessions, nextId, now, ghost>>

\* while (await storage.getProfileByPageName(pageName)) { ... counter++ };
\* after the loop an empty name becomes user<id>
VerifyEmailName(p) ==
    /\ reqs[p].pc = "ve_name"
    /\ LET r == reqs[p]
       IN reqs' = [reqs EXCEPT ![p] =
            IF getProfileByPageName(r.pageName) # NoId
            THEN [r EXCEPT !.pageName = WithCounter(r.basePageName, r.counter),
                           !.counter = r.counter + 1]
            ELSE [r EXCEPT !.pc = "ve_read",
                           !.pageName = IF r.pageName = <<>> THEN FallbackPageName(r.userId)
                                        ELSE r.pageName]]
    /\ UNCH_tables /\ UNCHANGED <<sessions, nextId, now, ghost>>

\* storage.createBioPage: existingProfiles = getProfilesByUserId(userId)
VerifyEmailRead(p) ==
    /\ reqs[p].pc = "ve_read"
    /\ reqs' = [reqs EXCEPT ![p] = [reqs[p] EXCEPT
            !.pc = "ve_insert",
            !.isFirstPage = (getProfilesByUserId(reqs[p].userId) = {})]]
    /\ UNCH_tables /\ UNCHANGED <<sessions, nextId, now, ghost>>

\* storage.createBioPage: the INSERT; a constraint violation is rethrown and
\* the route's catch answers 500
VerifyEmailInsert(p) ==
    /\ reqs[p].pc = "ve_insert"
    /\ LET r == reqs[p]
           ok == PageNameFree(r.pageName, NoId) /\ r.userId \in Dom(users)
       IN  IF ok
           THEN /\ profiles' = Insert(profiles, nextId.profile,
                        PageRow(r.userId, r.pageName, NewPageIsDefault(r.isFirstPage)))
                /\ nextId' = [nextId EXCEPT !.profile = @ + 1]
                /\ reqs' = [reqs EXCEPT ![p] = [r EXCEPT !.pc = "ve_update",
                                                         !.created = nextId.profile]]
           ELSE /\ UNCHANGED <<profiles, nextId>>
                /\ reqs' = Respond(p, 500)
    /\ UNCHANGED <<users, socialLinks, themes, sessions, now, ghost>>

\* storage.updateUser(user.id, { isEmailVerified: true, token: null, ... })
VerifyEmailUpdate(p) ==
    /\ reqs[p].pc = "ve_update"
    /\ users' = [u \in Dom(users) |->
          IF u = reqs[p].userId
          THEN [users[u] EXCEPT !.isEmailVerified = TRUE,
                                !.emailVerificationToken = NoId,
                                !.emailVerificationExpires = NoId]
          ELSE users[u]]
    /\ reqs' = Respond(p, 200)
    /\ UNCHANGED <<profiles, socialLinks, themes, sessions, nextId, now, ghost>>

\* a login that lets every user with the right password in
LoginSkipsVerification(user) == FALSE

\* if (!user.isEmailVerified) return res.status(403) ... needsVerification
LoginNeedsVerification(user) == ~user.isEmailVerified

\* POST /login up to the session write: getUserByEmail, verifyPassword, the
\* verification test
LoginStart(p, sid, email, pw) ==
    /\ reqs[p].pc = "idle"
    /\ LET u == getUserByEmail(email)
           passwordOk == u # NoId /\ verifyPassword(pw, users[u].password)
           st == IF ~passwordOk THEN 401
                 ELSE IF LoginNeedsVerification(users[u]) THEN 403 ELSE 0
       IN reqs' = [reqs EXCEPT ![p] =
            [pc |-> IF st = 0 THEN "login_save" ELSE "done", op |-> "login",
             sid |-> sid, email |-> email, userId |-> u, passwordOk |-> passwordOk,
             verified |-> u # NoId /\ users[u].isEmailVerified,
             needsVerification |-> st = 403, status |-> st]]
    /\ UNCH_tables /\ UNCHANGED <<sessions, nextId, now, ghost>>

\* req.session.userId = user.id; req.session.save(...)
LoginSave(p) ==
    /\ reqs[p].pc = "login_save"
    /\ sessions' = [sessions EXCEPT ![reqs[p].sid] = [@ EXCEPT !.userId = reqs[p].userId]]
    /\ reqs' = Respond(p, 200)
    /\ UNCH_tables /\ UNCHANGED <<nextId, now, ghost>>

\* POST /logout: req.session.destroy
Logout(p, sid) ==
    /\ reqs[p].pc = "idle"
    /\ sessions[sid].userId # NoId
    /\ sessions' = [sessions EXCEPT ![sid] = [@ EXCEPT !.userId = NoId]]
    /\ reqs' = [reqs EXCEPT ![p] = [pc |-> "done", op |-> "logout", sid |-> sid, status |-> 200]]
    /\ UNCH_tables /\ UNCHANGED <<nextId, now, ghost>>

(***************************************************************************)
(* SpecAuth: two visitors register, verify and log in from one browser     *)
(* session each, while the clock advances.                                 *)
(***************************************************************************)
MaxTicks == 2         \* times the clock is advanced

Sids == {"s1"}
Emails == {<<"a">>, <<"A">>}
RegisterPasswords == {"password1", "short"}
LoginPasswords == {"password1", "wrongpass"}

NoSession == [userId |-> NoId]

InitAuth ==
    /\ reqs = [p \in Procs |-> Idle]
    /\ now = 0
    /\ users = NoRows
    /\ profiles = NoRows
    /\ socialLinks = NoRows
    /\ themes = NoRows
    /\ sessions = [sid \in Sids |-> NoSession]
    /\ nextId = [user |-> 1, profile |-> 1, link |-> 1, theme |-> 1, token |-> 1]
    /\ ghost = [ticks |-> 0]

\* time passes: an hour, or a token's lifetime
Tick ==
    /\ ghost.ticks < MaxTicks
    /\ \E d \in {1, VerifyTtl} : now' = now + d
    /\ ghost' = [ghost EXCEPT !.ticks = @ + 1]
    /\ UNCH_tables /\ UNCHANGED <<sessions, reqs, nextId>>

NextAuth ==
    \/ Tick
    \/ \E p \in Procs :
        \/ \E email \in Emails, pw \in RegisterPasswords : RegisterStart(p, email, pw)
        \/ RegisterInsert(p)
        \/ \E token \in 1..nextId.token : VerifyEmailStart(p, token)
        \/ VerifyEmailDefault(p)
        \/ VerifyEmailName(p)
        \/ VerifyEmailRead(p)
        \/ VerifyEmailInsert(p)
        \/ VerifyEmailUpdate(p)
        \/ \E sid \in Sids, email \in Emails, pw \in LoginPasswords : LoginStart(p, sid, email, pw)
        \/ LoginSave(p)
        \/ \E sid \in Sids : Logout(p, sid)
        \/ Complete(p)

SpecAuth == InitAuth /\ [][NextAuth]_vars

\* C8: a login with the right password for a user whose email is not
\* verified is answered 403 with needsVerification, and no session carries
\* the id of a user whose email is not verified.
C8_UnverifiedLoginRefused ==
    /\ \A p \in Procs :
          (reqs[p].pc = "done" /\ reqs[p].op = "login"
           /\ reqs[p].passwordOk /\ ~reqs[p].verified)
          => (reqs[p].status = 403 /\ reqs[p].needsVerification)
    /\ \A sid \in Sids :
          sessions[sid].userId \in Dom(users) => users[sessions[sid].userId].isEmailVerified

C8_Witness ==
    \E p \in Procs :
        /\ reqs[p].pc = "done" /\ reqs[p].op = "login"
        /\ reqs[p].passwordOk /\ ~reqs[p].verified
        /\ reqs[p].status = 403
        /\ sessions[reqs[p].sid].userId = NoId

\* every verified user has a default page
VerifiedUsersHaveDefault ==
    \A u \in Dom(users) : users[u].isEmailVerified => DefaultProfilesOf(u) # {}

\* a step in which request p, a verify-email, answers 500
VerifyEmailFails(p) ==
    /\ reqs[p].op = "verifyEmail" /\ reqs[p].pc # "done"
    /\ reqs'[p].pc = "done" /\ reqs'[p].status = 500

\* C13: verifyEmail marks the user verified only after the user's default
\* page exists: in every state each verified user has a default page (so a
\* request that stops between the two writes leaves an unverified user with
\* a page, never a verified user without one), and the step in which the
\* page creation fails leaves every user row, token and expiry included, as
\* it was.
C13_ProfileBeforeVerified ==
    /\ []VerifiedUsersHaveDefault
    /\ [][\A p \in Procs : VerifyEmailFails(p) => users' = users]_vars

\* a verify-email whose page creation failed: the user is unverified and
\* the token of the request still finds the user, before it has expired
C13_Witness ==
    \E p \in Procs :
        /\ reqs[p].pc = "done" /\ reqs[p].op = "verifyEmail" /\ reqs[p].status = 500
        /\ getUserByVerificationToken(reqs[p].token) = reqs[p].userId
        /\ ~users[reqs[p].userId].isEmailVerified
        /\ users[reqs[p].userId].emailVerificationExpires >= now

EmailsUnique ==
    \A u, v \in Dom(users) : users[u].email = users[v].email => u = v

\* C20: no two users have one email, and a register request with a valid
\* password that created no user, because the email was taken when the
\* handler looked or when its INSERT ran, is answered 400 (the duplicate-email
\* error).
C20_DuplicateEmailIs400 ==
    /\ EmailsUnique
    /\ \A p \in Procs :
          (reqs[p].pc = "done" /\ reqs[p].op = "register"
           /\ Len(reqs[p].password) >= 8 /\ reqs[p].userId = NoId)
          => reqs[p].status = 400

\* C29: email verification creates at most one profile per user: whatever
\* the interleaving of verifyEmail requests with the same token, a user never
\* has a second page, and a verified user has exactly one page, the default.
C29_VerifyCreatesOneProfile ==
    \A u \in Dom(users) :
        /\ Cardinality(getProfilesByUserId(u)) <= 1
        /\ users[u].isEmailVerified => getProfilesByUserId(u) = DefaultProfilesOf(u)
                                       /\ Cardinality(DefaultProfilesOf(u)) = 1

(***************************************************************************)
(* server/auth.ts: forgot-password, reset-password, resend-verification.   *)
(* A response is its status and whether its body is the generic "If an     *)
(* account with that email exists, ..." message.  The mail collaborator    *)
(* (server/email.ts) is best-effort: a failed dispatch is logged there and *)
(* does not reach the handler.                                             *)
(***************************************************************************)
ResetTtl == 1         \* hours a password-reset token lasts
MaxTokens == 3        \* tokens generateToken() hands out per run

EmailSendThrows == FALSE

\* a null column matches no token
getUserByPasswordResetToken(token) ==
    IF \E u \in Dom(users) : users[u].passwordResetToken = token /\ token # NoId
    THEN CHOOSE u \in Dom(users) : users[u].passwordResetToken = token
    ELSE NoId

TokensInFlight == Cardinality({q \in Procs : reqs[q].pc \in {"fp_update", "rv_update"}})

\* POST /forgot-password: the body check and getUserByEmail
ForgotStart(p, email) ==
    /\ reqs[p].pc = "idle"
    /\ nextId.token + TokensInFlight <= MaxTokens
    /\ LET u == getUserByEmail(email)
           st == IF email = <<>> THEN 400 ELSE IF u = NoId THEN 200 ELSE 0
       IN reqs' = [reqs EXCEPT ![p] =
            [pc |-> IF st = 0 THEN "fp_update" ELSE "done", op |-> "forgotPassword",
             email |-> email, userId |-> u, status |-> st, generic |-> st = 200]]
    /\ UNCH_tables /\ UNCHANGED <<sessions, nextId, now, ghost>>

\* storage.updateUserPasswordResetToken(user.id, resetToken, now + 1 hour),
\* sendPasswordResetEmail, the generic answer
ForgotUpdate(p) ==
    /\ reqs[p].pc = "fp_update"
    /\ users' = [u \in Dom(users) |->
          IF u = reqs[p].userId
          THEN [users[u] EXCEPT !.passwordResetToken = nextId.token,
                                !.passwordResetExpires = now + ResetTtl]
          ELSE users[u]]
    /\ nextId' = [nextId EXCEPT !.token = @ + 1]
    /\ reqs' = [reqs EXCEPT ![p] = [reqs[p] EXCEPT
            !.pc = "done",
            !.status = IF EmailSendThrows THEN 500 ELSE 200,
            !.generic = ~EmailSendThrows]]
    /\ UNCHANGED <<profiles, socialLinks, themes, sessions, now, ghost>>

\* a reset that leaves the token in the row
KeptResetToken(token) == token

\* passwordResetToken: null
ClearedResetToken(token) == NoId

\* the token's row says it has expired
ResetTokenExpired(token) ==
    /\ getUserByPasswordResetToken(token) # NoId
    /\ users[getUserByPasswordResetToken(token)].passwordResetExpires # NoId
    /\ users[getUserByPasswordResetToken(token)].passwordResetExpires < now

\* POST /reset-password: the body checks, getUserByPasswordResetToken, the
\* expiry test
ResetStart(p, token, pw) ==
    /\ reqs[p].pc = "idle"
    /\ LET u == getUserByPasswordResetToken(token)
           st == IF token = NoId THEN 400
                 ELSE IF Len(pw) < 8 THEN 400
                 ELSE IF u = NoId THEN 400
                 ELSE IF ResetTokenExpired(token) THEN 400
                 ELSE 0
       IN reqs' = [reqs EXCEPT ![p] =
            [pc |-> IF st = 0 THEN "rp_update" ELSE "done", op |-> "resetPassword",
             token |-> token, password |-> pw, userId |-> u,
             spent |-> token \in ghost.spent, expired |-> ResetTokenExpired(token),
             status |-> st]]
    /\ UNCH_tables /\ UNCHANGED <<sessions, nextId, now, ghost>>

\* hashPassword, then storage.updateUser(user.id, { password, token: null,
\* expires: null })
ResetUpdate(p) ==
    /\ reqs[p].pc = "rp_update"
    /\ users' = [u \in Dom(users) |->
          IF u = reqs[p].userId
          THEN [users[u] EXCEPT !.password = hashPassword(reqs[p].password),
                                !.passwordResetToken = ClearedResetToken(@),
                                !.passwordResetExpires = NoId]
          ELSE users[u]]
    /\ ghost' = [ghost EXCEPT !.spent = @ \cup {reqs[p].token}]
    /\ reqs' = Respond(p, 200)
    /\ UNCHANGED <<profiles, socialLinks, themes, sessions, nextId, now>>

\* POST /resend-verification: the body check, getUserByEmail, the
\* already-verified test
ResendStart(p, email) ==
    /\ reqs[p].pc = "idle"
    /\ nextId.token + TokensInFlight <= MaxTokens
    /\ LET u == getUserByEmail(email)
           st == IF email = <<>> THEN 400
                 ELSE IF u = NoId THEN 200
                 ELSE IF users[u].isEmailVerified THEN 400
                 ELSE 0
       IN reqs' = [reqs EXCEPT ![p] =
            [pc |-> IF st = 0 THEN "rv_update" ELSE "done", op |-> "resendVerification",
             email |-> email, userId |-> u, status |-> st, generic |-> st = 200]]
    /\ UNCH_tables /\ UNCHANGED <<sessions, nextId, now, ghost>>

\* storage.updateUserVerificationToken(user.id, token, now + 24 hours),
\* sendVerificationEmail, the generic answer
ResendUpdate(p) ==
    /\ reqs[p].pc = "rv_update"
    /\ users' = [u \in Dom(users) |->
          IF u = reqs[p].userId
          THEN [users[u] EXCEPT !.emailVerificationToken = nextId.token,
                                !.emailVerificationExpires = now + VerifyTtl]
          ELSE users[u]]
    /\ nextId' = [nextId EXCEPT !.token = @ + 1]
    /\ reqs' = [reqs EXCEPT ![p] = [reqs[p] EXCEPT
            !.pc = "done",
            !.status = IF EmailSendThrows THEN 500 ELSE 200,
            !.generic = ~EmailSendThrows]]
    /\ UNCHANGED <<profiles, socialLinks, themes, sessions, now, ghost>>

(***************************************************************************)
(* SpecRecovery: a verified user "a", who has just asked for a reset link, *)
(* and an unverified user "b" (and whoever knows their addresses and       *)
(* tokens) ask for reset links, reset passwords and ask for new            *)
(* verification mails, while the clock advances.                           *)
(***************************************************************************)
RecoveryEmails == {<<>>, <<"a">>, <<"b">>, <<"c">>}
ResetPasswords == {"password2", "short"}

InitRecovery ==
    /\ InitCommon
    /\ users = (1 :> [UserRow(<<"a">>, FALSE) EXCEPT
                            !.passwordResetToken = 2,
                            !.passwordResetExpires = ResetTtl])
                @@ (2 :> [UserRow(<<"b">>, FALSE) EXCEPT
                            !.isEmailVerified = FALSE,
                            !.emailVerificationToken = 1,
                            !.emailVerificationExpires = VerifyTtl])
    /\ profiles = (1 :> PageRow(1, <<"a">>, TRUE))
    /\ socialLinks = NoRows
    /\ themes = NoRows
    /\ sessions = NoRows
    /\ nextId = [user |-> 3, profile |-> 2, link |-> 1, theme |-> 1, token |-> 3]
    /\ ghost = [ticks |-> 0, spent |-> {}]

NextRecovery ==
    \/ Tick
    \/ \E p \in Procs :
        \/ \E email \in RecoveryEmails : ForgotStart(p, email)
        \/ ForgotUpdate(p)
        \/ \E token \in 0..(nextId.token - 1), pw \in ResetPasswords : ResetStart(p, token, pw)
        \/ ResetUpdate(p)
        \/ \E email \in RecoveryEmails : ResendStart(p, email)
        \/ ResendUpdate(p)
        \/ Complete(p)

SpecRecovery == InitRecovery /\ [][NextRecovery]_vars

\* the step in which request p, a reset-password with `token`, arrives
ResetCalled(p, token) ==
    reqs[p].pc = "idle" /\ reqs'[p].op = "resetPassword" /\ reqs'[p].token = token

\* C15: a reset-password request that arrives with a token an earlier
\* request has already reset a password with, or with a token whose expiry
\* has passed, is answered 400 and leaves every user row (password, token
\* and expiry) as it was.
C15_ResetTokenSingleUseAndExpires ==
    [][\A p \in Procs, token \in 1..MaxTokens :
          (ResetCalled(p, token) /\ (token \in ghost.spent \/ ResetTokenExpired(token)))
          => (reqs'[p].pc = "done" /\ reqs'[p].status = 400 /\ users' = users)]_vars

\* both cases have happened: one request came with a spent token, the
\* other with an expired one, each with a password that is long enough
C15_Witness ==
    \E p, q \in Procs :
        /\ reqs[p].pc = "done" /\ reqs[p].op = "resetPassword"
        /\ reqs[p].spent /\ Len(reqs[p].password) >= 8 /\ reqs[p].status = 400
        /\ reqs[q].pc = "done" /\ reqs[q].op = "resetPassword"
        /\ reqs[q].expired /\ Len(reqs[q].password) >= 8 /\ reqs[q].status = 400

\* C16: a forgot-password or resend-verification request that carries an
\* email is answered 200 with the generic message, whether or not a user has
\* that email and whether or not that user is verified.
C16_SameAnswerForEveryEmail ==
    \A p \in Procs :
        (reqs[p].pc = "done" /\ reqs[p].op \in {"forgotPassword", "resendVerification"}
         /\ reqs[p].email # <<>>)
        => (reqs[p].status = 200 /\ reqs[p].generic)

(***************************************************************************)
(* server/adminRoutes.ts: the isAdmin middleware and the routes that       *)
(* delete users and set the admin flag.  The middleware's getUser and the  *)
(* handler's checks up to its first statement are one step: the handler    *)
(* works on req.user, the row the middleware read.                         *)
(***************************************************************************)
\* routes that are not behind the middleware
NoAdminCheck(sid) == 0

\* isAdmin middleware: 0 to call next(), else the status it answers
AdminCheck(sid) ==
    IF sessions[sid].userId = NoId THEN 401
    ELSE IF getUser(sessions[sid].userId) = NoId THEN 401
    ELSE IF ~users[sessions[sid].userId].isAdmin THEN 403
    ELSE 0

\* req.user.id once the middleware has let the request through
AdminCaller(sid) == IF AdminCheck(sid) = 0 THEN sessions[sid].userId ELSE NoId

\* a surface without the tests for the caller's own id
NeverSelf(id, caller) == FALSE

\* id === req.user.id  /  userIds.includes(req.user.id)
IsSelf(id, caller) == id = caller

IncludesSelf(userIds, caller) == \E k \in 1..Len(userIds) : IsSelf(userIds[k], caller)

Range(s) == {s[k] : k \in 1..Len(s)}

\* DELETE /users/:id
DeleteUserStart(p, sid, id) ==
    /\ reqs[p].pc = "idle"
    /\ LET st == IF AdminCheck(sid) # 0 THEN AdminCheck(sid)
                 ELSE IF IsSelf(id, AdminCaller(sid)) THEN 400 ELSE 0
       IN reqs' = [reqs EXCEPT ![p] =
            [pc |-> IF st = 0 THEN "du_profiles" ELSE "done", op |-> "deleteUser",
             sid |-> sid, caller |-> AdminCaller(sid), id |-> id,
             self |-> id = AdminCaller(sid), hadProfiles |-> {}, writes |-> {},
             status |-> st]]
    /\ UNCH_tables /\ UNCHANGED <<sessions, nextId, now, ghost>>

\* db.delete(profiles).where(userId = id); a theme that references one of
\* the rows makes the DELETE throw (500)
DeleteUserProfiles(p) ==
    /\ reqs[p].pc = "du_profiles"
    /\ LET r == reqs[p]
           rows == getProfilesByUserId(r.id)
       IN  /\ ~ProfileLockedByOther(p, rows)
           /\ IF rows \cap ProfilesReferencedByThemes # {}
              THEN /\ UNCHANGED profiles
                   /\ reqs' = Respond(p, 500)
              ELSE /\ profiles' = Delete(profiles, rows)
                   /\ reqs' = [reqs EXCEPT ![p] = [r EXCEPT !.pc = "du_user", !.hadProfiles = rows]]
    /\ UNCHANGED <<users, socialLinks, themes, sessions, nextId, now, ghost>>

\* db.delete(users).where(id = id); a profile that references the row makes
\* the DELETE throw (500)
DeleteUserUser(p) ==
    /\ reqs[p].pc = "du_user"
    /\ LET r == reqs[p]
       IN  IF r.id \in UsersReferencedByProfiles
           THEN /\ UNCHANGED users
                /\ reqs' = Respond(p, 500)
           ELSE /\ users' = Delete(users, {r.id})
                /\ reqs' = [reqs EXCEPT ![p] = [r EXCEPT !.pc = "done", !.status = 200,
                                !.writes = {r.id} \cap Dom(users)]]
    /\ UNCHANGED <<profiles, socialLinks, themes, sessions, nextId, now, ghost>>

\* POST /users/bulk-delete
BulkDeleteStart(p, sid, userIds) ==
    /\ reqs[p].pc = "idle"
    /\ LET st == IF AdminCheck(sid) # 0 THEN AdminCheck(sid)
                 ELSE IF Len(userIds) = 0 THEN 400
                 ELSE IF IncludesSelf(userIds, AdminCaller(sid)) THEN 400 ELSE 0
       IN reqs' = [reqs EXCEPT ![p] =
            [pc |-> IF st = 0 THEN "bd_profiles" ELSE "done", op |-> "bulkDeleteUsers",
             sid |-> sid, caller |-> AdminCaller(sid), userIds |-> userIds,
             self |-> AdminCaller(sid) \in Range(userIds), hadProfiles |-> {}, writes |-> {},
             status |-> st]]
    /\ UNCH_tables /\ UNCHANGED <<sessions, nextId, now, ghost>>

\* db.delete(profiles).where(inArray(profiles.userId, userIds))
BulkDeleteProfiles(p) ==
    /\ reqs[p].pc = "bd_profiles"
    /\ LET r == reqs[p]
           rows == {i \in Dom(profiles) : profiles[i].userId \in Range(r.userIds)}
       IN  /\ ~ProfileLockedByOther(p, rows)
           /\ IF rows \cap ProfilesReferencedByThemes # {}
              THEN /\ UNCHANGED profiles
                   /\ reqs' = Respond(p, 500)
              ELSE /\ profiles' = Delete(profiles, rows)
                   /\ reqs' = [reqs EXCEPT ![p] = [r EXCEPT !.pc = "bd_users", !.hadProfiles = rows]]
    /\ UNCHANGED <<users, socialLinks, themes, sessions, nextId, now, ghost>>

\* db.delete(users).where(inArray(users.id, userIds)): one statement, all
\* rows or none
BulkDeleteUsers(p) ==
    /\ reqs[p].pc = "bd_users"
    /\ LET r == reqs[p]
       IN  IF Range(r.userIds) \cap UsersReferencedByProfiles # {}
           THEN /\ UNCHANGED users
                /\ reqs' = Respond(p, 500)
           ELSE /\ users' = Delete(users, Range(r.userIds))
                /\ reqs' = [reqs EXCEPT ![p] = [r EXCEPT !.pc = "done", !.status = 200,
                                !.writes = Range(r.userIds) \cap Dom(users)]]
    /\ UNCHANGED <<profiles, socialLinks, themes, sessions, nextId, now, ghost>>

\* PATCH /users/:id/admin with a boolean isAdmin in the body
ToggleAdminStart(p, sid, id, newAdminStatus) ==
    /\ reqs[p].pc = "idle"
    /\ LET st == IF AdminCheck(sid) # 0 THEN AdminCheck(sid)
                 ELSE IF IsSelf(id, AdminCaller(sid)) /\ ~newAdminStatus THEN 400 ELSE 0
       IN reqs' = [reqs EXCEPT ![p] =
            [pc |-> IF st = 0 THEN "ta_update" ELSE "done", op |-> "toggleAdmin",
             sid |-> sid, caller |-> AdminCaller(sid), id |-> id,
             newAdminStatus |-> newAdminStatus,
             self |-> id = AdminCaller(sid) /\ ~newAdminStatus, writes |-> {},
             status |-> st]]
    /\ UNCH_tables /\ UNCHANGED <<sessions, nextId, now, ghost>>

\* storage.updateUser(id, { isAdmin: newAdminStatus }); no row is 404
ToggleAdminUpdate(p) ==
    /\ reqs[p].pc = "ta_update"
    /\ LET r == reqs[p]
       IN  IF r.id \notin Dom(users)
           THEN /\ UNCHANGED users
                /\ reqs' = Respond(p, 404)
           ELSE /\ users' = [users EXCEPT ![r.id] = [@ EXCEPT !.isAdmin = r.newAdminStatus]]
                /\ reqs' = [reqs EXCEPT ![p] = [r EXCEPT !.pc = "done", !.status = 200,
                                !.writes = {r.id}]]
    /\ UNCHANGED <<profiles, socialLinks, themes, sessions, nextId, now, ghost>>

\* POST /users/bulk-admin
BulkAdminStart(p, sid, userIds, newAdminStatus) ==
    /\ reqs[p].pc = "idle"
    /\ LET st == IF AdminCheck(sid) # 0 THEN AdminCheck(sid)
                 ELSE IF Len(userIds) = 0 THEN 400
                 ELSE IF IncludesSelf(userIds, AdminCaller(sid)) /\ ~newAdminStatus THEN 400
                 ELSE 0
       IN reqs' = [reqs EXCEPT ![p] =
            [pc |-> IF st = 0 THEN "ba_update" ELSE "done", op |-> "bulkToggleAdmin",
             sid |-> sid, caller |-> AdminCaller(sid), userIds |-> userIds,
             newAdminStatus |-> newAdminStatus, i |-> 0,
             self |-> AdminCaller(sid) \in Range(userIds) /\ ~newAdminStatus, writes |-> {},
             status |-> st]]
    /\ UNCH_tables /\ UNCHANGED <<sessions, nextId, now, ghost>>

\* for (const userId of userIds) await storage.updateUser(userId, { isAdmin })
BulkAdminUpdate(p) ==
    /\ reqs[p].pc = "ba_update"
    /\ LET r == reqs[p]
           id == r.userIds[r.i + 1]
           last == r.i + 1 = Len(r.userIds)
       IN  /\ users' = [u \in Dom(users) |->
                  IF u = id THEN [users[u] EXCEPT !.isAdmin = r.newAdminStatus] ELSE users[u]]
           /\ reqs' = [reqs EXCEPT ![p] = [r EXCEPT
                  !.i = r.i + 1,
                  !.writes = @ \cup ({id} \cap Dom(users)),
                  !.pc = IF last THEN "done" ELSE "ba_update",
                  !.status = IF last THEN 200 ELSE 0]]
    /\ UNCHANGED <<profiles, socialLinks, themes, sessions, nextId, now, ghost>>

(***************************************************************************)
(* SpecAdmin: user 1 is an admin (is_admin set in the database), user 2 is *)
(* not.  User 2 owns a page with a link and goes on creating pages and     *)
(* themes while the admin surface is used from the sessions of both users: *)
(* one admin request and one request of user 2 at a time, overlapping.     *)
(* Earlier requests have used up the ids but for two pages and one theme.  *)
(***************************************************************************)
MaxBulk == 2          \* length of the userIds lists of bulk requests

AdminSids == {"s1", "s2"}
UserIds == {1, 2}
UserIdLists == UNION {[1..n -> UserIds] : n \in 0..MaxBulk}

AdminOps == {"deleteUser", "bulkDeleteUsers", "toggleAdmin", "bulkToggleAdmin"}

InitAdmin ==
    /\ InitCommon
    /\ ghost = NoRows
    /\ users = (1 :> UserRow(<<"a">>, TRUE)) @@ (2 :> UserRow(<<"b">>, FALSE))
    /\ profiles = (1 :> PageRow(2, <<"b">>, TRUE))
    /\ socialLinks = ("1" :> LinkRow(1, 0))
    /\ themes = NoRows
    /\ sessions = ("s1" :> [userId |-> 1]) @@ ("s2" :> [userId |-> 2])
    /\ nextId = [user |-> 3, profile |-> MaxProfiles - 1, link |-> 2, theme |-> MaxThemes,
                 token |-> 1]

\* no other slot holds an admin request / a request of user 2
NoOtherAdminRequest(p) == \A q \in Procs \ {p} : reqs[q].op \notin AdminOps
NoOtherUserRequest(p) == \A q \in Procs \ {p} : reqs[q].op \notin {"createBioPage", "createTheme"}

NextAdmin ==
    \E p \in Procs :
        \/ NoOtherAdminRequest(p)
             /\ \E sid \in AdminSids, id \in UserIds : DeleteUserStart(p, sid, id)
        \/ NoOtherAdminRequest(p)
             /\ \E sid \in AdminSids, ids \in UserIdLists : BulkDeleteStart(p, sid, ids)
        \/ NoOtherAdminRequest(p)
             /\ \E sid \in AdminSids, id \in UserIds, v \in BOOLEAN : ToggleAdminStart(p, sid, id, v)
        \/ NoOtherAdminRequest(p)
             /\ \E sid \in AdminSids, ids \in UserIdLists, v \in BOOLEAN :
                    BulkAdminStart(p, sid, ids, v)
        \/ DeleteUserProfiles(p)
        \/ DeleteUserUser(p)
        \/ BulkDeleteProfiles(p)
        \/ BulkDeleteUsers(p)
        \/ ToggleAdminUpdate(p)
        \/ BulkAdminUpdate(p)
        \/ NoOtherUserRequest(p) /\ \E name \in PageNames : PostBioPageStart(p, 2, name)
        \/ NoOtherUserRequest(p) /\ \E pid \in Dom(profiles) : PostThemeStart(p, 2, pid)
        \/ CreateBioPageRead(p)
        \/ CreateBioPageInsert(p)
        \/ CreateThemeInsert(p)
        \/ Complete(p)

SpecAdmin == InitAdmin /\ [][NextAdmin]_vars

\* the users a delete request names
DeleteTargets(r) == IF r.op = "deleteUser" THEN {r.id} ELSE Range(r.userIds)

\* C9: once a deleteUser or bulkDeleteUsers request has answered success, no
\* targeted user row exists and no profile row carries a targeted user id.
C9_DeletedUsersLeaveNoProfiles ==
    \A p \in Procs :
        (reqs[p].pc = "done" /\ reqs[p].op \in {"deleteUser", "bulkDeleteUsers"}
         /\ reqs[p].status = 200)
        => \A u \in DeleteTargets(reqs[p]) :
              u \notin Dom(users) /\ getProfilesByUserId(u) = {}

\* a delete that removed a user together with a page that still has a link
C9_Witness ==
    \E p \in Procs :
        /\ reqs[p].pc = "done" /\ reqs[p].op \in {"deleteUser", "bulkDeleteUsers"}
        /\ reqs[p].status = 200
        /\ reqs[p].writes # {}
        /\ Cardinality(reqs[p].hadProfiles) >= 2
        /\ \E l \in Dom(socialLinks) : socialLinks[l].profileId \in reqs[p].hadProfiles

\* a step of request p that is a statement of an admin handler
AdminStatement(p) ==
    /\ reqs[p].pc \in {"du_profiles", "du_user", "bd_profiles", "bd_users", "ta_update", "ba_update"}
    /\ reqs'[p] # reqs[p]

\* the row of the admin who sent request p is still there, and still admin
\* if it was
OwnRecordKept(p) ==
    LET a == reqs[p].caller
    IN  a \in Dom(users) =>
            /\ a \in Dom(users')
            /\ users[a].isAdmin => users'[a].isAdmin

\* a finished admin request that named its caller for deletion or demotion
\* was answered 400 and wrote no user row
SelfRequestsRejected ==
    \A p \in Procs :
        (reqs[p].pc = "done" /\ reqs[p].op \in AdminOps
         /\ reqs[p].caller # NoId /\ reqs[p].self)
        => (reqs[p].status = 400 /\ reqs[p].writes = {})

\* C10: deleteUser(self), bulkDeleteUsers with self in the list,
\* toggleAdmin(self, false) and bulkToggleAdmin(false) with self in the list
\* are answered 400 and write nothing, and no statement of an admin request
\* deletes its caller's row or clears its caller's admin flag.
C10_NoSelfDemoteOrDelete ==
    /\ []SelfRequestsRejected
    /\ [][\A p \in Procs : AdminStatement(p) => OwnRecordKept(p)]_vars

\* an admin's bulk request that names the admin after another user is
\* refused with both rows still in place
C10_Witness ==
    \E p \in Procs :
        /\ reqs[p].pc = "done" /\ reqs[p].op \in {"bulkDeleteUsers", "bulkToggleAdmin"}
        /\ reqs[p].userIds = <<2, 1>>
        /\ reqs[p].caller = 1 /\ reqs[p].self /\ reqs[p].status = 400
        /\ users[1].isAdmin /\ 2 \in Dom(users)

(***************************************************************************)
(* adminRoutes.ts: impersonation.  The session of an admin who impersonates *)
(* carries the target's id as userId, the admin's id as originalAdminId    *)
(* and the isImpersonating mark; the session is saved with the response.   *)
(***************************************************************************)
SessionOf(u) == [userId |-> u, originalAdminId |-> NoId, isImpersonating |-> FALSE]

\* POST /users/:id/impersonate: the middleware
ImpersonateStart(p, sid, id) ==
    /\ reqs[p].pc = "idle"
    /\ reqs' = [reqs EXCEPT ![p] =
            [pc |-> IF AdminCheck(sid) = 0 THEN "imp_read" ELSE "done", op |-> "impersonate",
             sid |-> sid, caller |-> AdminCaller(sid), id |-> id, status |-> AdminCheck(sid)]]
    /\ UNCH_tables /\ UNCHANGED <<sessions, nextId, now, ghost>>

\* const user = await storage.getUser(id); 404, or the three session writes
ImpersonateRead(p) ==
    /\ reqs[p].pc = "imp_read"
    /\ LET r == reqs[p]
       IN  IF getUser(r.id) = NoId
           THEN /\ UNCHANGED sessions
                /\ reqs' = Respond(p, 404)
           ELSE /\ sessions' = [sessions EXCEPT ![r.sid] =
                        [userId |-> r.id, originalAdminId |-> r.caller, isImpersonating |-> TRUE]]
                /\ reqs' = Respond(p, 200)
    /\ UNCH_tables /\ UNCHANGED <<nextId, now, ghost>>

\* POST /users/stop-impersonate: the middleware, then the handler, which
\* awaits nothing
StopImpersonate(p, sid) ==
    /\ reqs[p].pc = "idle"
    /\ reqs' = [reqs EXCEPT ![p] =
            [pc |-> "done", op |-> "stopImpersonate", sid |-> sid, caller |-> AdminCaller(sid),
             wasImpersonating |-> sessions[sid].isImpersonating,
             original |-> sessions[sid].originalAdminId,
             status |-> IF AdminCheck(sid) = 0 THEN 200 ELSE AdminCheck(sid)]]
    /\ sessions' =
          IF AdminCheck(sid) = 0 /\ sessions[sid].isImpersonating
             /\ sessions[sid].originalAdminId # NoId
          THEN [sessions EXCEPT ![sid] = SessionOf(sessions[sid].originalAdminId)]
          ELSE sessions
    /\ UNCH_tables /\ UNCHANGED <<nextId, now, ghost>>

(***************************************************************************)
(* SpecSupport: the admin surface used from three browser sessions: one    *)
(* that is not logged in, the admin's (user 1) and user 2's.  User 2 has a *)
(* page.  Admins delete, promote, demote and impersonate; requests that    *)
(* set the admin flag and bulk requests run alone, the others overlap.     *)
(***************************************************************************)
SupportSids == {"s0", "s1", "s2"}
AdminSurfaceOps == AdminOps \cup {"impersonate", "stopImpersonate"}

InitSupport ==
    /\ InitCommon
    /\ ghost = NoRows
    /\ users = (1 :> UserRow(<<"a">>, TRUE)) @@ (2 :> UserRow(<<"b">>, FALSE))
    /\ profiles = (1 :> PageRow(2, <<"b">>, TRUE))
    /\ socialLinks = NoRows
    /\ themes = NoRows
    /\ sessions = ("s0" :> SessionOf(NoId)) @@ ("s1" :> SessionOf(1)) @@ ("s2" :> SessionOf(2))
    /\ nextId = [user |-> 3, profile |-> 2, link |-> 1, theme |-> 1, token |-> 1]

\* the other slots hold nothing but single deletes and impersonation requests
OthersSingle(p) ==
    \A q \in Procs \ {p} : reqs[q].op \in {"none", "deleteUser", "impersonate", "stopImpersonate"}

NextSupport ==
    \E p \in Procs :
        \/ OthersSingle(p)
             /\ \E sid \in SupportSids, id \in UserIds : DeleteUserStart(p, sid, id)
        \/ OthersIdle(p)
             /\ \E sid \in SupportSids, ids \in UserIdLists : BulkDeleteStart(p, sid, ids)
        \/ OthersIdle(p)
             /\ \E sid \in SupportSids, id \in UserIds, v \in BOOLEAN :
                    ToggleAdminStart(p, sid, id, v)
        \/ OthersIdle(p)
             /\ \E sid \in SupportSids, ids \in UserIdLists, v \in BOOLEAN :
                    BulkAdminStart(p, sid, ids, v)
        \/ OthersSingle(p)
             /\ \E sid \in SupportSids, id \in UserIds : ImpersonateStart(p, sid, id)
        \/ OthersSingle(p) /\ \E sid \in SupportSids : StopImpersonate(p, sid)
        \/ DeleteUserProfiles(p)
        \/ DeleteUserUser(p)
        \/ BulkDeleteProfiles(p)
        \/ BulkDeleteUsers(p)
        \/ ToggleAdminUpdate(p)
        \/ BulkAdminUpdate(p)
        \/ ImpersonateRead(p)
        \/ Complete(p)

SpecSupport == InitSupport /\ [][NextSupport]_vars

\* the step in which request p, a stop-impersonate on session sid, is served
StopCalled(p, sid) ==
    reqs[p].pc = "idle" /\ reqs'[p].op = "stopImpersonate" /\ reqs'[p].sid = sid

\* C14: a stop-impersonate request on a session that is impersonating (an
\* impersonate of an existing user has succeeded on it) is answered 200 and
\* leaves the session with the original admin's id as its user id and
\* without the impersonation fields.
C14_StopRestoresAdmin ==
    [][\A p \in Procs, sid \in SupportSids :
          (StopCalled(p, sid) /\ sessions[sid].isImpersonating)
          => /\ reqs'[p].status = 200
             /\ sessions'[sid] = SessionOf(sessions[sid].originalAdminId)]_vars

\* the step in which request p of the admin surface arrives on session sid
AdminCalled(p, sid) ==
    reqs[p].pc = "idle" /\ reqs'[p].op \in AdminSurfaceOps /\ reqs'[p].sid = sid

\* the request was answered with `status` and nothing was written
Refused(p, status) ==
    /\ reqs'[p].pc = "done" /\ reqs'[p].status = status
    /\ users' = users /\ profiles' = profiles /\ sessions' = sessions

\* every admin request that goes on after the middleware has a caller
PassedRequestsHaveCaller ==
    \A p \in Procs :
        (reqs[p].op \in AdminSurfaceOps /\ reqs[p].pc # "done")
        => (reqs[p].caller # NoId /\ reqs[p].status = 0)

\* C17: a request to a route of the admin surface whose session has no user
\* id, or the id of a user that no longer exists, is answered 401; one whose
\* session user is not an admin is answered 403; neither writes a user,
\* profile or session; only requests that passed the check go on to the
\* handler's statements.
C17_AdminCheckFirst ==
    /\ []PassedRequestsHaveCaller
    /\ [][\A p \in Procs, sid \in SupportSids :
            AdminCalled(p, sid) =>
              /\ (sessions[sid].userId = NoId \/ sessions[sid].userId \notin Dom(users))
                    => Refused(p, 401)
              /\ (sessions[sid].userId \in Dom(users)
                  /\ ~users[sessions[sid].userId].isAdmin)
                    => Refused(p, 403)]_vars

\* one request was refused 401 on the session of a user that has been
\* deleted, another 403 on the session of a user who is not an admin
C17_Witness ==
    \E p, q \in Procs :
        /\ reqs[p].pc = "done" /\ reqs[p].op \in AdminSurfaceOps /\ reqs[p].status = 401
        /\ sessions[reqs[p].sid].userId # NoId
        /\ sessions[reqs[p].sid].userId \notin Dom(users)
        /\ reqs[q].pc = "done" /\ reqs[q].op \in AdminSurfaceOps /\ reqs[q].status = 403
        /\ sessions[reqs[q].sid].userId \in Dom(users)

(***************************************************************************)
(* SpecOwnership: user 1 sends link and theme requests.  User 1 owns page  *)
(* 1, user 2 owns page 2, page 3 has been deleted.  Link "1" and theme 1   *)
(* are on user 2's page; link "2" is on the deleted page (social_links has *)
(* no foreign key, so deleteBioPage left it behind).                       *)
(***************************************************************************)
InitOwnership ==
    /\ InitCommon
    /\ sessions = NoRows
    /\ ghost = NoRows
    /\ users = TwoUsers
    /\ profiles = (1 :> PageRow(1, <<"a">>, TRUE)) @@ (2 :> PageRow(2, <<"b">>, TRUE))
    /\ socialLinks = ("1" :> LinkRow(2, 0)) @@ ("2" :> LinkRow(3, 0))
    /\ themes = (1 :> [profileId |-> 2, isActive |-> FALSE])
    /\ nextId = [user |-> 3, profile |-> 4, link |-> MaxLinks, theme |-> MaxThemes, token |-> 1]

OwnershipBodies == {Body(<<>>, <<1>>, <<>>, <<>>)}

NextOwnership ==
    \E p \in Procs :
        \/ \E u \in Callers, pid \in 1..MaxProfiles : PostLinkStart(p, u, pid)
        \/ \E u \in Callers, id \in LinkIds, body \in OwnershipBodies :
              PatchLinksRequest(p, u, id, body)
        \/ \E u \in Callers, id \in LinkIds : DeleteLinkStart(p, u, id)
        \/ \E u \in Callers, pid \in 1..MaxProfiles : PostThemeStart(p, u, pid)
        \/ \E u \in Callers, id \in 1..MaxThemes : PatchThemeStart(p, u, id, NoId)
        \/ \E u \in Callers, id \in 1..MaxThemes : DeleteThemeStart(p, u, id)
        \/ \E u \in Callers, id \in 1..MaxThemes : ActivateThemeStart(p, u, id)
        \/ CreateLinkInsert(p)
        \/ UpdateLinkUpdate(p)
        \/ DeleteLinkDelete(p)
        \/ CreateThemeInsert(p)
        \/ UpdateThemeUpdate(p)
        \/ DeleteThemeDelete(p)
        \/ ActivateThemeUnset(p)
        \/ ActivateThemeSet(p)
        \/ Complete(p)

SpecOwnership == InitOwnership /\ [][NextOwnership]_vars

LinkOps == {"updateLink", "deleteLink"}
ThemeOps == {"updateTheme", "deleteTheme", "activateTheme"}
CreateOps == {"createLink", "createTheme"}

\* the link or theme that request r names is not there
TargetMissing(r) ==
    \/ r.op \in LinkOps /\ r.id \notin Dom(socialLinks)
    \/ r.op \in ThemeOps /\ r.id \notin Dom(themes)

\* the id of the parent profile of what request r names
ParentOf(r) ==
    IF r.op \in CreateOps THEN r.profileId
    ELSE IF r.op \in LinkOps THEN socialLinks[r.id].profileId
    ELSE themes[r.id].profileId

\* what the contract answers to request r: 404 when the link, the theme or
\* the parent profile is missing, 403 when the parent belongs to another
\* user, 0 to let the request through
Contract(r) ==
    IF TargetMissing(r) THEN 404
    ELSE IF ParentOf(r) \notin Dom(profiles) THEN 404
    ELSE IF profiles[ParentOf(r)].userId # r.caller THEN 403
    ELSE 0

\* the step in which request p of the link and theme routes arrives
OwnershipCalled(p) ==
    reqs[p].pc = "idle" /\ reqs'[p].op \in LinkOps \cup ThemeOps \cup CreateOps

\* C18: a link or theme request (create, update, delete, activate) that
\* names a missing link or theme, or whose parent profile is missing, is
\* answered 404, one whose parent profile belongs to another user 403, and
\* neither creates, changes or removes a link or a theme; only requests of
\* the parent's owner go on to the handler's statement.
C18_OwnerOnly403And404 ==
    [][\A p \in Procs :
          (OwnershipCalled(p) /\ Contract(reqs'[p]) # 0)
          => /\ reqs'[p].pc = "done"
             /\ reqs'[p].status = Contract(reqs'[p])
             /\ socialLinks' = socialLinks /\ themes' = themes]_vars

(***************************************************************************)
(* SpecStorage: the page methods of storage.ts called directly, the way    *)
(* server/__tests__/storage.test.ts calls them, for either user and any    *)
(* id.  createBioPage and deleteBioPage calls run one at a time;           *)
(* setDefaultBioPage calls overlap one another.                            *)
(***************************************************************************)
StorageUsers == {1, 2}

\* storage.createBioPage(userId, pageData)
CreateBioPageCall(p, u, name) ==
    /\ reqs[p].pc = "idle"
    /\ nextId.profile <= MaxProfiles
    /\ reqs' = [reqs EXCEPT ![p] =
            [pc |-> "cbp_read", op |-> "createBioPage", caller |-> u, pageName |-> name,
             isFirstPage |-> FALSE, created |-> NoId, nameTaken |-> FALSE, status |-> 0]]
    /\ UNCH_tables /\ UNCHANGED <<sessions, nextId, now, ghost>>

\* storage.setDefaultBioPage(id, userId): db.transaction opens
SetDefaultCall(p, u, id) ==
    /\ reqs[p].pc = "idle"
    /\ reqs' = [reqs EXCEPT ![p] =
            [pc |-> "sd_unset", op |-> "setDefaultBioPage", caller |-> u, id |-> id,
             rows |-> {}, status |-> 0,
             owned |-> SetDefaultTarget(id, u) # {},
             wasDefault |-> id \in DefaultProfilesOf(u)]]
    /\ UNCH_tables /\ UNCHANGED <<sessions, nextId, now, ghost>>

InitStorage ==
    /\ InitCommon
    /\ sessions = NoRows
    /\ ghost = NoRows
    /\ users = TwoUsers
    /\ profiles = (1 :> PageRow(1, <<"c">>, TRUE)) @@ (2 :> PageRow(2, <<"d">>, TRUE))
    /\ socialLinks = ("1" :> LinkRow(1, 0))
    /\ themes = NoRows
    /\ nextId = [user |-> 3, profile |-> 3, link |-> 2, theme |-> 1, token |-> 1]

NextStorage ==
    \E p \in Procs :
        \/ OthersQuiet(p)
             /\ \E u \in StorageUsers, name \in PageNames : CreateBioPageCall(p, u, name)
        \/ OthersQuiet(p)
             /\ \E u \in StorageUsers, id \in 1..MaxProfiles : DeleteBioPageStart(p, u, id)
        \/ OthersQuietOrSettingDefault(p)
             /\ \E u \in StorageUsers, id \in 1..MaxProfiles : SetDefaultCall(p, u, id)
        \/ CreateBioPageRead(p)
        \/ CreateBioPageInsert(p)
        \/ DeleteBioPageOther(p)
        \/ DeleteBioPagePromote(p)
        \/ DeleteBioPageDelete(p)
        \/ SetDefaultUnset(p)
        \/ SetDefaultSet(p)
        \/ Complete(p)

SpecStorage == InitStorage /\ [][NextStorage]_vars

\* a step of call p of setDefaultBioPage
SetDefaultStep(p) == reqs[p].op = "setDefaultBioPage" /\ reqs'[p] # reqs[p] /\ reqs[p].pc # "done"

\* the step that commits call p of setDefaultBioPage
SetDefaultCommits(p) == SetDefaultStep(p) /\ reqs'[p].pc = "done" /\ reqs'[p].status = 200

\* the rows of the users other than u are what they were
OtherUsersKept(u) ==
    \A i \in Dom(profiles) :
        profiles[i].userId # u => (i \in Dom(profiles') /\ profiles'[i] = profiles[i])

\* C11: when setDefaultBioPage(id, userId) returns, page id is default, no
\* other page of userId is, getDefaultProfileByUserId(userId) is id, and no
\* step of the call has touched a page of another user.
C11_SetDefaultMakesOnlyDefault ==
    [][\A p \in Procs :
          /\ SetDefaultStep(p) => OtherUsersKept(reqs[p].caller)
          /\ SetDefaultCommits(p) =>
                LET id == reqs[p].id
                    u == reqs[p].caller
                IN  /\ id \in Dom(profiles') /\ profiles'[id].userId = u
                    /\ profiles'[id].isDefault
                    /\ \A i \in Dom(profiles') \ {id} :
                          profiles'[i].userId = u => ~profiles'[i].isDefault
                    /\ getDefaultProfileByUserId(u)' = id]_vars

\* a call that moved the default from one page of a user to another
C11_Witness ==
    \E p \in Procs :
        /\ reqs[p].pc = "done" /\ reqs[p].op = "setDefaultBioPage" /\ reqs[p].status = 200
        /\ ~reqs[p].wasDefault
        /\ getDefaultProfileByUserId(reqs[p].caller) = reqs[p].id
        /\ Cardinality(getProfilesByUserId(reqs[p].caller)) >= 2
        /\ \E i \in Dom(profiles) : profiles[i].userId # reqs[p].caller /\ profiles[i].isDefault

\* C12: a setDefaultBioPage(id, userId) whose id names no page of userId
\* throws, and no step of it changes any row of profiles.
C12_FailedSetDefaultChangesNothing ==
    [][\A p \in Procs :
          (SetDefaultStep(p) /\ ~reqs[p].owned)
          => /\ profiles' = profiles
             /\ reqs'[p].pc = "done" => reqs'[p].status = 500]_vars

\* a call for another user's page has thrown, and the caller's default page
\* is still default
C12_Witness ==
    \E p \in Procs :
        /\ reqs[p].pc = "done" /\ reqs[p].op = "setDefaultBioPage" /\ reqs[p].status = 500
        /\ ~reqs[p].owned
        /\ reqs[p].id \in Dom(profiles)
        /\ DefaultProfilesOf(reqs[p].caller) # {}

\* the step that is call p of deleteBioPage(id, u)
DeleteBioPageCalled(p, u, id) ==
    /\ reqs[p].pc = "idle"
    /\ reqs'[p].op = "deleteBioPage" /\ reqs'[p].caller = u /\ reqs'[p].id = id

\* C19: deleteBioPage(id, userId) for an id that names no page of userId
\* returns false at once with every profile row as it was, and a call
\* returns true only on the step that removes the caller's own page id.
C19_DeleteOnlyOwnPage ==
    [][\A p \in Procs :
          /\ \A u \in StorageUsers, id \in 1..MaxProfiles :
                (DeleteBioPageCalled(p, u, id)
                 /\ (id \notin Dom(profiles) \/ profiles[id].userId # u))
                => (reqs'[p].pc = "done" /\ reqs'[p].status = 404 /\ profiles' = profiles)
          /\ (reqs[p].op = "deleteBioPage" /\ reqs[p].pc # "done"
              /\ reqs'[p].pc = "done" /\ reqs'[p].status = 204)
             => /\ reqs[p].id \in Dom(profiles)
                /\ profiles[reqs[p].id].userId = reqs[p].caller
                /\ reqs[p].id \notin Dom(profiles')]_vars

\* a delete of another user's default page has returned false, and that
\* page is still there and still default
C19_Witness ==
    \E p \in Procs :
        /\ reqs[p].pc = "done" /\ reqs[p].op = "deleteBioPage" /\ reqs[p].status = 404
        /\ reqs[p].id \in Dom(profiles)
        /\ profiles[reqs[p].id].userId # reqs[p].caller
        /\ profiles[reqs[p].id].isDefault

\* C30: referential integrity: every link and every theme names an existing
\* profile and every profile names an existing user, whatever was deleted.
C30_ReferentialIntegrity ==
    /\ \A l \in Dom(socialLinks) : socialLinks[l].profileId \in Dom(profiles)
    /\ \A t \in Dom(themes) : themes[t].profileId \in Dom(profiles)
    /\ \A i \in Dom(profiles) : profiles[i].userId \in Dom(users)

(***************************************************************************)
(* deleteBioPage of a default page                                         *)
(***************************************************************************)
\* a deleteBioPage call that has run its promotion UPDATE
Promoted(p) ==
    /\ reqs[p].op = "deleteBioPage"
    /\ reqs[p].pc \in {"del_delete", "done"}
    /\ reqs[p].other # NoId

\* C21: deleting a default page promotes a replacement atomically with the
\* removal: in no state, neither between the statements of the call nor after
\* a DELETE that failed, is the replacement default while the original page
\* still exists as default.
C21_PromotionAtomicWithRemoval ==
    \A p \in Procs :
        Promoted(p) /\ reqs[p].other \in Dom(profiles) /\ profiles[reqs[p].other].isDefault
            => ~(reqs[p].id \in Dom(profiles) /\ profiles[reqs[p].id].isDefault)

(***************************************************************************)
(* SpecProfile: user 1 patches its two pages, and tries the page of user   *)
(* 2 and a page that does not exist, through both PATCH routes, one        *)
(* request at a time.                                                      *)
(***************************************************************************)
\* a page name of 51 characters
LongPageName == [k \in 1..(MaxPageNameLen + 1) |-> "a"]

\* the names a body asks for: those of the three pages, a free one, one with
\* a character outside the pattern, the empty string and a long one
PatchNames == {<<"a">>, <<"b">>, <<"c">>, <<"e">>, <<"!">>, <<>>, LongPageName}

ProfilePatch(id, userId, pageName, isDefault) ==
    [id |-> id, userId |-> userId, pageName |-> pageName, isDefault |-> isDefault]

BioPageBodies == {[pageName |-> <<>>]} \cup {[pageName |-> <<n>>] : n \in PatchNames}

ProfileBodies ==
    {ProfilePatch(<<>>, <<>>, <<>>, <<>>)}
    \cup {ProfilePatch(<<>>, <<>>, <<n>>, <<>>) : n \in PatchNames}
    \cup {ProfilePatch(<<>>, <<u>>, <<>>, <<>>) : u \in {2, 3}}
    \cup {ProfilePatch(<<>>, <<>>, <<>>, <<b>>) : b \in BOOLEAN}
    \cup {ProfilePatch(<<i>>, <<>>, <<>>, <<>>) : i \in {2, 4}}

InitProfile ==
    /\ InitCommon
    /\ sessions = NoRows
    /\ users = TwoUsers
    /\ profiles = (1 :> PageRow(1, <<"a">>, TRUE)) @@ (2 :> PageRow(1, <<"b">>, FALSE))
                  @@ (3 :> PageRow(2, <<"c">>, TRUE))
    /\ socialLinks = NoRows
    /\ themes = NoRows
    /\ nextId = [user |-> 3, profile |-> 5, link |-> 1, theme |-> 1, token |-> 1]
    /\ ghost = NoRows

NextProfile ==
    \E p \in Procs :
        \/ OthersIdle(p)
             /\ \E u \in Callers, id \in 1..(MaxProfiles + 1), body \in BioPageBodies :
                    PatchBioPageStart(p, u, id, body)
        \/ OthersIdle(p)
             /\ \E u \in Callers, id \in 1..(MaxProfiles + 1), body \in ProfileBodies :
                    PatchProfileStart(p, u, id, body)
        \/ UpdateBioPageName(p)
        \/ UpdateBioPageUpdate(p)
        \/ UpdateProfileUpdate(p)
        \/ Complete(p)

SpecProfile == InitProfile /\ [][NextProfile]_vars

\* C26: the pageName of every stored profile has 1 to 50 characters, all of
\* them letters, digits, hyphens or underscores, whichever operation wrote it.
C26_PageNamesMatchPattern ==
    \A i \in Dom(profiles) : ValidPageName(profiles[i].pageName)

\* C27: ownership links never change after creation: no step changes the
\* userId of a profile, the profileId of a link or the profileId of a theme.
C27_OwnershipLinksImmutable ==
    [][/\ \A i \in Dom(profiles) \cap Dom(profiles') : profiles'[i].userId = profiles[i].userId
       /\ \A l \in Dom(socialLinks) \cap Dom(socialLinks') :
             socialLinks'[l].profileId = socialLinks[l].profileId
       /\ \A t \in Dom(themes) \cap Dom(themes') :
             themes'[t].profileId = themes[t].profileId]_vars

PatchOps == {"updateBioPage", "updateProfile"}

\* a finished PATCH of a page that passed the ownership test and the schema
\* and asked for a page name
RenameDone(p) ==
    /\ reqs[p].op \in PatchOps /\ reqs[p].pc = "done"
    /\ reqs[p].status \notin {404, 403, 400}
    /\ reqs[p].newPageName # <<>>

\* another row than that of request p holds the name the request asked for
HeldByAnother(p) ==
    \E i \in Dom(profiles) \ {reqs[p].id} : profiles[i].pageName = reqs[p].newPageName[1]

\* the step in which request p is turned down
Rejects(p) ==
    reqs[p].op \in PatchOps /\ reqs[p].pc # "done" /\ reqs'[p].pc = "done"
    /\ reqs'[p].status # 200

\* C23: a PATCH through updateBioPage or updateProfile that asks for a page
\* name another profile holds is answered 409 and changes no profile; one
\* that asks for the profile's own current name is accepted; page names stay
\* unique.
C23_RenameRechecksUniqueness ==
    /\ [](PageNamesUnique
          /\ \A p \in Procs : RenameDone(p) =>
                /\ HeldByAnother(p) => reqs[p].status = 409
                /\ reqs[p].newPageName[1] = reqs[p].existingPageName => reqs[p].status = 200)
    /\ [][\A p \in Procs : Rejects(p) => profiles' = profiles]_vars

\* C28: no step of an updateProfile or updateBioPage request changes the
\* isDefault flag of any profile.
C28_PatchKeepsIsDefault ==
    [][\A p \in Procs : reqs[p].op \in PatchOps /\ reqs'[p] # reqs[p] =>
          \A i \in Dom(profiles) \cap Dom(profiles') :
              profiles'[i].isDefault = profiles[i].isDefault]_vars

(***************************************************************************)
(* SpecAllocate: GET /verify-email for user 1, whose address is any of     *)
(* AllocEmails and who has no page, while user 2 holds any pages with      *)
(* names of HeldNames; one request at a time.                              *)
(***************************************************************************)
\* local parts: plain, upper case, with a stripped character, all stripped,
\* and one of 51 characters
AllocEmails == {<<"a">>, <<"A">>, <<"a", "!">>, <<"!">>, <<"b">>, LongPageName}

\* names other pages may hold: slugs, slugs with a counter, user<id> of user 1
HeldNames == {<<"a">>, <<"a", "1">>, <<"a", "2">>, <<"b">>, <<"1">>, FallbackPageName(1)}

InitAllocate ==
    /\ InitCommon
    /\ sessions = NoRows
    /\ ghost = NoRows
    /\ socialLinks = NoRows
    /\ themes = NoRows
    /\ \E email \in AllocEmails :
          users = (1 :> [UserRow(email, FALSE) EXCEPT !.isEmailVerified = FALSE,
                                                      !.emailVerificationToken = 1,
                                                      !.emailVerificationExpires = VerifyTtl])
                  @@ (2 :> UserRow(<<"c">>, FALSE))
    /\ \E n \in 0..(MaxProfiles - 1) : \E names \in [1..n -> HeldNames] :
          /\ \A i, j \in 1..n : i # j => names[i] # names[j]
          /\ profiles = [i \in 1..n |-> PageRow(2, names[i], i = 1)]
          /\ nextId = [user |-> 3, profile |-> n + 1, link |-> 1, theme |-> 1, token |-> 2]

NextAllocate ==
    \E p \in Procs :
        \/ OthersIdle(p) /\ \E token \in 1..2 : VerifyEmailStart(p, token)
        \/ VerifyEmailDefault(p)
        \/ VerifyEmailName(p)
        \/ VerifyEmailRead(p)
        \/ VerifyEmailInsert(p)
        \/ VerifyEmailUpdate(p)
        \/ Complete(p)

SpecAllocate == InitAllocate /\ [][NextAllocate]_vars

\* the handler in slot p has left the probing loop with its page name
Allocated(p) == reqs[p].op = "verifyEmail" /\ reqs[p].pc = "ve_read"

Held(name) == \E i \in Dom(profiles) : profiles[i].pageName = name

\* C24: the page name verifyEmail allocates is held by no profile: the base
\* slug when it is free, otherwise the base followed by the smallest free
\* counter 1, 2, 3, ..., and for an empty slug the name user<id>, likewise
\* held by no profile.
C24_AllocatedNameIsFree ==
    \A p \in Procs : Allocated(p) =>
        LET r == reqs[p]
            base == BasePageName(r.email)
        IN  /\ ~Held(r.pageName)
            /\ base # <<>> /\ ~Held(base) => r.pageName = base
            /\ base # <<>> /\ Held(base) =>
                  \E k \in 1..MaxProfiles :
                      /\ r.pageName = WithCounter(base, k)
                      /\ \A j \in 1..(k - 1) : Held(WithCounter(base, j))
            /\ base = <<>> => r.pageName = FallbackPageName(r.userId)

====
